---- MODULE Spec2Model ----
(***************************************************************************)
(* A model of the operation-chain parser, the resize geometry and the      *)
(* image/audio dispatchers of serverless-media-processor.                  *)
(*                                                                         *)
(* Python strings are sequences of one-character strings, so that split,   *)
(* startswith and int() are computed character by character.  A Python     *)
(* value is tagged: <<"int", n>>, <<"str", chars>>, <<"enum", name>> or    *)
(* <<"none">>.  A dict is a function whose domain is its key set.          *)
(***************************************************************************)
EXTENDS Integers, Sequences, FiniteSets, TLC

VARIABLES
    \* ---- parse_operation on its own (SpecParse)
    segIn,          \* the segment as it was composed: [op, toks]
    operation_str,  \* the segment string handed to parse_operation
    parsed,         \* what parse_operation returned or raised; NotRun before
    \* ---- resize_image on its own (SpecResize)
    src_size,       \* <<original_width, original_height>> of the decoded image
    resize_params,  \* the resize_params dict
    resized,        \* outcome of resize_image; NotRun before
    \* ---- process_image / process_audio (Spec)
    pipeline,       \* "image" or "audio": which of the two is running
    input_format,   \* extension of the object key
    items,          \* the segments the operations string was composed of
    operations,     \* the operations string
    operation_chain,\* operations.split('/') without the empty segments
    pc,             \* "start", "loop" or "done"
    buffer,         \* current_image_data / current_audio_data
    log,            \* the turns of the loop taken so far
    result,         \* the response returned or the error raised; NotRun before
    task_type,      \* local task_type: unbound (None) until a segment is parsed
    task_status,    \* Status of the task record
    uploaded,       \* the buffers uploaded to S3
    reply,          \* the statusCode the Lambda handler answered with; NotRun before
    \* ---- the paste position of a watermark on its own (SpecPosition)
    place_in,       \* canvas, element, gravity, margins, voffset, rotation
    placed,         \* the position and the size of what was pasted; NotRun before
    \* ---- convert_audio on its own (SpecConvert)
    convert_params, \* the params dict
    ffmpeg_result,  \* what the ffmpeg process would do: "raise" or "same"
    converted,      \* how convert_audio ended; NotRun before
    \* ---- the page selection of a document request on its own (SpecPages)
    doc_operation,  \* the operations string of the request
    doc_params,     \* what parse_operation returned or raised; NotRun before
    doc_pages,      \* what parse_pages_param returned or raised; NotRun before
    \* ---- the dead-letter processor (SpecDlq)
    dlq_records,    \* event['Records']
    dlq_operations, \* the local variable operations of handler
    dlq_table,      \* the task table: TaskId -> item
    dlq_sent,       \* the notifications published to SNS, in order
    dlq_done,       \* per record handled so far: how its turn of the loop ended
    status_reply,   \* the answer of the task status handler; NotRun before
    segment_cache,  \* VideoSnapshots._segment_cache: its keys in insertion order
    segment_inserted, \* the keys cache_segment was called with, in order
    video_return,   \* how the last process_video call ended; NotRun before
    conv_target,    \* process_document: the target format
    conv_files,     \* the number of PNG files convert_document writes
    conv_pc,        \* how far the call has come
    conv_uploaded,  \* the number of files uploaded
    conv_record,    \* the task record: Status and ErrorMessage
    conv_result,    \* what process_document returned or raised; NotRun before
    share_call,     \* two invocations: the function each runs and its format
    share_pc,       \* the step each is about to take
    share_files,    \* the files under /tmp: path -> content
    share_got,      \* what each has read from its output file
    share_result    \* what each returned or raised; NotRun before

varsParse  == <<segIn, operation_str, parsed>>
varsResize == <<src_size, resize_params, resized>>
varsChain  == <<pipeline, input_format, items, operations, operation_chain, pc,
                buffer, log, result, task_type, task_status, uploaded, reply>>
varsPlace  == <<place_in, placed>>
\* the variables of the functions modelled on their own further below
varsConvert == <<convert_params, ffmpeg_result, converted>>
varsPages  == <<doc_operation, doc_params, doc_pages>>
varsDlq    == <<dlq_records, dlq_operations, dlq_table, dlq_sent, dlq_done, status_reply>>
varsVideo  == <<segment_cache, segment_inserted, video_return>>
varsConv   == <<conv_target, conv_files, conv_pc, conv_uploaded, conv_record, conv_result>>
varsShare  == <<share_call, share_pc, share_files, share_got, share_result>>
varsLate   == <<varsVideo, varsConv, varsShare>>
varsMore   == <<varsDlq, varsLate>>
varsUnits  == <<varsPlace, varsConvert, varsPages, varsMore>>
varsOld    == <<varsParse, varsResize, varsChain, varsPlace, varsConvert, varsPages>>
varsNotVideo == <<varsOld, varsDlq, varsConv, varsShare>>
varsNotConv == <<varsOld, varsDlq, varsVideo, varsShare>>
varsNotShare == <<varsOld, varsDlq, varsVideo, varsConv>>
vars       == <<varsParse, varsResize, varsChain, varsUnits>>

NotRun == [kind |-> "notrun"]

-----------------------------------------------------------------------------
(* Python values and dicts *)

PyInt(n) == <<"int", n>>
PyStr(s) == <<"str", s>>
PyNone   == <<"none">>
IsInt(v) == v[1] = "int"
IsStr(v) == v[1] = "str"

EmptyDict == <<>>
Put(d, k, v) == [x \in (DOMAIN d) \cup {k} |-> IF x = k THEN v ELSE d[x]]
Get(d, k, default) == IF k \in DOMAIN d THEN d[k] ELSE default
Has(d, k) == k \in DOMAIN d

-----------------------------------------------------------------------------
(* Python string primitives *)

Digits == <<"0", "1", "2", "3", "4", "5", "6", "7", "8", "9">>
IsDigit(c) == \E i \in 1..10 : Digits[i] = c
DigitVal(c) == (CHOOSE i \in 1..10 : Digits[i] = c) - 1

Contains(s, c) == \E i \in 1..Len(s) : s[i] = c
IndexOf(s, c) == IF Contains(s, c)
                 THEN CHOOSE i \in 1..Len(s) : s[i] = c /\ \A j \in 1..(i-1) : s[j] # c
                 ELSE 0
LastIndexOf(s, c) == IF Contains(s, c)
                     THEN CHOOSE i \in 1..Len(s) : s[i] = c /\ \A j \in (i+1)..Len(s) : s[j] # c
                     ELSE 0
Drop(s, n) == SubSeq(s, n + 1, Len(s))
StartsWith(s, prefix) == Len(s) >= Len(prefix) /\ SubSeq(s, 1, Len(prefix)) = prefix

\* str.split(c): always at least one part, empty parts kept
RECURSIVE Split(_, _)
Split(s, c) ==
    LET i == IndexOf(s, c) IN
    IF i = 0 THEN <<s>> ELSE <<SubSeq(s, 1, i - 1)>> \o Split(Drop(s, i), c)

\* rsplit(c, 1) and split(c, 1) on a string that contains c
SplitAtLast(s, c) ==
    LET i == LastIndexOf(s, c) IN <<SubSeq(s, 1, i - 1), Drop(s, i)>>
SplitFirst(s, c) ==
    LET i == IndexOf(s, c) IN <<SubSeq(s, 1, i - 1), Drop(s, i)>>

RECURSIVE Join(_, _)
Join(parts, c) ==
    IF Len(parts) = 0 THEN <<>>
    ELSE IF Len(parts) = 1 THEN parts[1]
    ELSE parts[1] \o <<c>> \o Join(Tail(parts), c)

\* str.strip() for the blank
RECURSIVE LStrip(_)
LStrip(s) == IF Len(s) > 0 /\ s[1] = " " THEN LStrip(Tail(s)) ELSE s
RECURSIVE RStrip(_)
RStrip(s) == IF Len(s) > 0 /\ s[Len(s)] = " " THEN RStrip(SubSeq(s, 1, Len(s) - 1)) ELSE s
Strip(s) == RStrip(LStrip(s))

\* int(s): blanks stripped, an optional sign, then digits in which single
\* underscores may stand between two digits
Unsigned(s) == IF Len(s) > 0 /\ s[1] \in {"+", "-"} THEN Tail(s) ELSE s
IsDigitGroup(b) ==
    /\ Len(b) > 0
    /\ \A i \in 1..Len(b) : IsDigit(b[i]) \/ b[i] = "_"
    /\ IsDigit(b[1]) /\ IsDigit(b[Len(b)])
    /\ \A i \in 1..(Len(b) - 1) : ~(b[i] = "_" /\ b[i + 1] = "_")
IsPyIntLiteral(s) == IsDigitGroup(Unsigned(Strip(s)))
RECURSIVE DigitsValue(_, _)
DigitsValue(b, acc) ==
    IF Len(b) = 0 THEN acc
    ELSE IF b[1] = "_" THEN DigitsValue(Tail(b), acc)
    ELSE DigitsValue(Tail(b), 10 * acc + DigitVal(b[1]))
IntOf(s) ==
    LET t == Strip(s) IN
    IF Len(t) > 0 /\ t[1] = "-" THEN 0 - DigitsValue(Unsigned(t), 0)
    ELSE DigitsValue(Unsigned(t), 0)

-----------------------------------------------------------------------------
(* Names that the code spells out: operation names, dict keys, prefixes *)

OP_resize == <<"r", "e", "s", "i", "z", "e">>
OP_format == <<"f", "o", "r", "m", "a", "t">>
OP_rotate == <<"r", "o", "t", "a", "t", "e">>
OP_auto_orient == <<"a", "u", "t", "o", "-", "o", "r", "i", "e", "n", "t">>
OP_watermark == <<"w", "a", "t", "e", "r", "m", "a", "r", "k">>
OP_crop == <<"c", "r", "o", "p">>
OP_quality == <<"q", "u", "a", "l", "i", "t", "y">>
OP_blur == <<"b", "l", "u", "r">>
OP_grayscale == <<"g", "r", "a", "y", "s", "c", "a", "l", "e">>
OP_blindwatermark == <<"b", "l", "i", "n", "d", "w", "a", "t", "e", "r", "m", "a", "r", "k">>
OP_deblindwatermark == <<"d", "e", "b", "l", "i", "n", "d", "w", "a", "t", "e", "r", "m", "a", "r", "k">>
OP_convert == <<"c", "o", "n", "v", "e", "r", "t">>

K_auto == <<"a", "u", "t", "o">>
K_degree == <<"d", "e", "g", "r", "e", "e">>
K_text == <<"t", "e", "x", "t">>
K_content == <<"c", "o", "n", "t", "e", "n", "t">>
K_context == <<"c", "o", "n", "t", "e", "x", "t">>
K_color == <<"c", "o", "l", "o", "r">>
K_f == <<"f">>
K_p == <<"p">>
K_w == <<"w">>
K_h == <<"h">>
K_l == <<"l">>
K_s == <<"s">>
K_m == <<"m">>
K_limit == <<"l", "i", "m", "i", "t">>
K_image == <<"i", "m", "a", "g", "e">>
K_bigP == <<"P">>
K_t == <<"t">>
K_g == <<"g">>
K_x == <<"x">>
K_y == <<"y">>
K_voffset == <<"v", "o", "f", "f", "s", "e", "t">>
K_fill == <<"f", "i", "l", "l">>
K_padx == <<"p", "a", "d", "x">>
K_pady == <<"p", "a", "d", "y">>
K_size == <<"s", "i", "z", "e">>
K_shadow == <<"s", "h", "a", "d", "o", "w">>
K_q == <<"q">>
K_bigQ == <<"Q">>
K_radius == <<"r", "a", "d", "i", "u", "s">>
K_block == <<"b", "l", "o", "c", "k">>

PFX_text == <<"t", "e", "x", "t", "_">>
PFX_content == <<"c", "o", "n", "t", "e", "n", "t", "_">>
PFX_context == <<"c", "o", "n", "t", "e", "x", "t", "_">>

-----------------------------------------------------------------------------
(* image-processor/image_processor.py: parse_operation *)

TextKeys == {K_color, K_text, K_content, K_context}

\* lines 76-81: int(value) unless the key is textual; a ValueError keeps the string
\* variant: the value is never converted
CoerceNever(key, value) == PyStr(value)
CoerceValue(key, value) ==
    IF key \notin TextKeys /\ IsPyIntLiteral(value)
    THEN PyInt(IntOf(value))
    ELSE PyStr(value)

\* line 72: parts = param.split('_', 1)
\* variant: the split taken at the last underscore
SplitKeyValueLast(param) == SplitAtLast(param, "_")
SplitKeyValue(param) == SplitFirst(param, "_")

\* lines 62-81: a token that contains '_'
\* variant: no special case for the free-text prefixes
KeyedParamNoPrefix(params, param) ==
    LET kv == SplitKeyValue(param) IN
    [raised |-> FALSE, params |-> Put(params, kv[1], CoerceValue(kv[1], kv[2]))]
KeyedParam(params, param) ==
    IF StartsWith(param, PFX_text)
    THEN [raised |-> FALSE, params |-> Put(params, K_text, PyStr(Drop(param, 5)))]
    ELSE IF StartsWith(param, PFX_content)
    THEN [raised |-> FALSE, params |-> Put(params, K_content, PyStr(Drop(param, 8)))]
    ELSE IF StartsWith(param, PFX_context)
    THEN [raised |-> FALSE, params |-> Put(params, K_context, PyStr(Drop(param, 8)))]
    ELSE LET kv == SplitKeyValue(param) IN
         [raised |-> FALSE, params |-> Put(params, kv[1], CoerceValue(kv[1], kv[2]))]

\* lines 82-85: a token without '_' counts only under format, as key f
\* variant: the bare token is filed under the operation's own name
BareParamUnderOp(operation, params, param) ==
    IF operation = OP_format THEN Put(params, OP_format, PyStr(param)) ELSE params
BareParam(operation, params, param) ==
    IF operation = OP_format THEN Put(params, K_f, PyStr(param)) ELSE params

\* lines 50-60: auto-orient and rotate take the whole token as an integer
IntParam(params, key, param) ==
    IF IsPyIntLiteral(param)
    THEN [raised |-> FALSE, params |-> Put(params, key, PyInt(IntOf(param)))]
    ELSE [raised |-> TRUE, params |-> params]

\* lines 49-85: one turn of the loop over parts[1:]
ParseParam(operation, params, param) ==
    IF operation = OP_auto_orient THEN IntParam(params, K_auto, param)
    ELSE IF operation = OP_rotate THEN IntParam(params, K_degree, param)
    ELSE IF Contains(param, "_") THEN KeyedParam(params, param)
    ELSE [raised |-> FALSE, params |-> BareParam(operation, params, param)]

RECURSIVE ParseParams(_, _, _)
ParseParams(operation, params, rest) ==
    IF Len(rest) = 0 THEN [raised |-> FALSE, params |-> params]
    ELSE LET r == ParseParam(operation, params, rest[1]) IN
         IF r.raised THEN r ELSE ParseParams(operation, r.params, Tail(rest))

\* lines 41-87: (operation, params), or ValueError
parse_operation(s) ==
    LET parts == Split(s, ",") IN
    LET r == ParseParams(parts[1], EmptyDict, Tail(parts)) IN
    IF r.raised
    THEN [kind |-> "raise", exc |-> "ValueError"]
    ELSE [kind |-> "ok", operation |-> parts[1], params |-> r.params]

-----------------------------------------------------------------------------
(* Inputs of the parser: a segment is composed from an operation name and   *)
(* tokens, a keyed token from a key without '_' and the text after the      *)
(* first '_', so that what the parser returns can be set against what the   *)
(* segment was made of.                                                     *)

MaxTokens == 2

Keyed(k, r) == [keyed |-> TRUE, k |-> k, r |-> r]
Bare(b)     == [keyed |-> FALSE, k |-> <<>>, r |-> b]
TokStr(t)   == IF t.keyed THEN t.k \o <<"_">> \o t.r ELSE t.r
Seg(op, toks) == [op |-> op, toks |-> toks]
SegStr(seg) ==
    Join(<<seg.op>> \o [i \in 1..Len(seg.toks) |-> TokStr(seg.toks[i])], ",")

OP_foo == <<"f", "o", "o">>
ParseOps   == {OP_resize, OP_format, OP_rotate, OP_auto_orient, OP_foo}
ParamKeys  == {K_p, K_limit, K_color, K_text, K_content, K_context, <<"9">>}
ParamRests == {<<"5", "0">>, <<"x">>, <<"a", "_", "b">>, <<"1", "_", "0">>, <<>>}
BareTokens == {<<"p", "n", "g">>, <<"9", "0">>}
ParseTokens == {Keyed(k, r) : k \in ParamKeys, r \in ParamRests}
                   \cup {Bare(b) : b \in BareTokens}
TokenSeqs == UNION {[1..n -> ParseTokens] : n \in 0..MaxTokens}

IdleParse  == segIn = Seg(<<>>, <<>>) /\ operation_str = <<>> /\ parsed = NotRun
IdleResize == src_size = <<0, 0>> /\ resize_params = EmptyDict /\ resized = NotRun
IdlePlace == place_in = <<>> /\ placed = NotRun
IdleConvert == convert_params = EmptyDict /\ ffmpeg_result = "same" /\ converted = NotRun
IdlePages == doc_operation = <<>> /\ doc_params = NotRun /\ doc_pages = NotRun
Unbound == "(unbound)"
IdleDlq ==
    /\ dlq_records = <<>> /\ dlq_operations = Unbound /\ dlq_table = <<>>
    /\ dlq_sent = <<>> /\ dlq_done = <<>> /\ status_reply = NotRun
IdleVideo == segment_cache = <<>> /\ segment_inserted = <<>> /\ video_return = NotRun
IdleConv ==
    /\ conv_target = "" /\ conv_files = 0 /\ conv_pc = "idle" /\ conv_uploaded = 0
    /\ conv_record = NotRun /\ conv_result = NotRun
IdleShare ==
    /\ share_call = <<>> /\ share_pc = <<>> /\ share_files = <<>>
    /\ share_got = <<>> /\ share_result = <<>>
IdleLate == IdleVideo /\ IdleConv /\ IdleShare
IdleMore == IdleDlq /\ IdleLate
IdleUnits == IdlePlace /\ IdleConvert /\ IdlePages /\ IdleMore
IdleChain ==
    /\ pipeline = "none" /\ input_format = "" /\ items = <<>> /\ operations = <<>>
    /\ operation_chain = <<>> /\ pc = "idle"
    /\ buffer = [kind |-> "none", size |-> <<0, 0>>, trace |-> <<>>]
    /\ log = <<>> /\ result = NotRun /\ task_type = PyNone /\ task_status = "none"
    /\ uploaded = {} /\ reply = NotRun
IdleOld == IdleParse /\ IdleResize /\ IdleChain /\ IdlePlace /\ IdleConvert /\ IdlePages

InitParse ==
    /\ \E op \in ParseOps, toks \in TokenSeqs : segIn = Seg(op, toks)
    /\ operation_str = SegStr(segIn)
    /\ parsed = NotRun
    /\ IdleResize
    /\ IdleChain
    /\ IdleUnits

ParseSegment ==
    /\ parsed = NotRun
    /\ parsed' = parse_operation(operation_str)
    /\ UNCHANGED <<segIn, operation_str, varsResize, varsChain, varsUnits>>

NextParse == ParseSegment
SpecParse == InitParse /\ [][NextParse]_vars

-----------------------------------------------------------------------------
(* Claims about parse_operation, under SpecParse *)

WholeTokenOps == {OP_auto_orient, OP_rotate}
\* token i is the last one of the segment that writes its key
LastOfKey(toks, i) ==
    \A j \in (i + 1)..Len(toks) : ~(toks[j].keyed /\ toks[j].k = toks[i].k)
\* what a keyed token may leave under its key: its text after the first '_',
\* as it stands or as the integer it spells
StoredFrom(t) ==
    IF t.k \in TextKeys THEN {PyStr(t.r)}
    ELSE {PyStr(t.r)} \cup (IF IsPyIntLiteral(t.r) THEN {PyInt(IntOf(t.r))} ELSE {})
FirstSplitRule ==
    /\ parsed.kind = "ok"
    /\ \A i \in 1..Len(segIn.toks) :
         LET t == segIn.toks[i] IN
         (t.keyed /\ LastOfKey(segIn.toks, i)) =>
             /\ Has(parsed.params, t.k)
             /\ parsed.params[t.k] \in StoredFrom(t)
WholeTokenRule ==
    LET key == IF segIn.op = OP_rotate THEN K_degree ELSE K_auto
        n == Len(segIn.toks) IN
    /\ parsed.kind = "ok" <=> \A i \in 1..n : IsPyIntLiteral(TokStr(segIn.toks[i]))
    /\ (parsed.kind = "ok" /\ n > 0) =>
           parsed.params = Put(EmptyDict, key, PyInt(IntOf(TokStr(segIn.toks[n]))))

\* C5 as stated: in every parsed segment, each key_value token is filed under
\* the text before its first '_' with everything after it as the value.
C5_EveryTokenFirstSplit ==
    parsed.kind = "ok" =>
        \A i \in 1..Len(segIn.toks) :
            LET t == segIn.toks[i] IN
            (t.keyed /\ LastOfKey(segIn.toks, i)) =>
                /\ Has(parsed.params, t.k)
                /\ parsed.params[t.k] \in StoredFrom(t)

\* C5 amended: for every operation other than auto-orient and rotate each
\* key_value token is filed under the text before its first '_' with all the
\* text after it as the value (verbatim for text, content, context, color);
\* under auto-orient and rotate the whole token is read as one integer.
C5_FirstSplitExceptWholeToken ==
    parsed # NotRun =>
        IF segIn.op \in WholeTokenOps THEN WholeTokenRule ELSE FirstSplitRule

C5_Witness ==
    /\ parsed.kind = "ok"
    /\ segIn.op = OP_resize
    /\ Len(segIn.toks) = 2
    /\ segIn.toks[1] = Keyed(K_text, <<"a", "_", "b">>)
    /\ segIn.toks[2] = Keyed(K_p, <<"1", "_", "0">>)
    /\ parsed.params[K_text] = PyStr(<<"a", "_", "b">>)
    /\ parsed.params[K_p] = PyInt(10)

\* what the coercion leaves: the integer for a value int() accepts under a
\* non-textual key, the original string otherwise
IsDecimal(r) == Len(r) > 0 /\ \A i \in 1..Len(r) : IsDigit(r[i])
CoercionRule ==
    \A i \in 1..Len(segIn.toks) :
        LET t == segIn.toks[i] IN
        (t.keyed /\ LastOfKey(segIn.toks, i)) =>
            /\ (t.k \notin TextKeys /\ IsDecimal(t.r)) =>
                   parsed.params[t.k] = PyInt(DigitsValue(t.r, 0))
            /\ (t.k \in TextKeys \/ ~IsPyIntLiteral(t.r)) =>
                   parsed.params[t.k] = PyStr(t.r)

\* C6 as stated: the parser never raises over a value that is not an integer;
\* decimal values of non-textual keys become integers, the rest stay strings.
C6_NeverRaises ==
    parsed # NotRun => (parsed.kind = "ok" /\ CoercionRule)

\* C6 amended: for every operation other than auto-orient and rotate the parser
\* never raises and coerces as stated; under auto-orient and rotate a token
\* that is not an integer makes parse_operation raise ValueError.
C6_NeverRaisesExceptWholeToken ==
    parsed # NotRun =>
        IF segIn.op \in WholeTokenOps
        THEN parsed.kind = "raise" <=>
                 \E i \in 1..Len(segIn.toks) : ~IsPyIntLiteral(TokStr(segIn.toks[i]))
        ELSE parsed.kind = "ok" /\ CoercionRule

C6_Witness ==
    /\ parsed.kind = "ok"
    /\ segIn.op = OP_resize
    /\ segIn.toks = <<Keyed(K_p, <<"x">>), Keyed(K_limit, <<"5", "0">>)>>
    /\ parsed.params[K_p] = PyStr(<<"x">>)
    /\ parsed.params[K_limit] = PyInt(50)

-----------------------------------------------------------------------------
(* .aws-sam/build/ImageProcessorFunction/image_resizer.py: resize_image *)

MinSize == 1
MaxSizeParam == 16384
MinPercent == 1
MaxPercent == 1000

PyEnum(name) == <<"enum", name>>
LFIT  == PyEnum("lfit")
MFIT  == PyEnum("mfit")
FILL  == PyEnum("fill")
PAD   == PyEnum("pad")
FIXED == PyEnum("fixed")
ResizeMode == {LFIT, MFIT, FILL, PAD, FIXED}

\* Python truth value of a dict entry (None, 0 and '' are false)
Truthy(v) ==
    IF v = PyNone THEN FALSE
    ELSE IF IsInt(v) THEN v[2] # 0
    ELSE IF IsStr(v) THEN Len(v[2]) > 0
    ELSE TRUE
\* int(v) of an int or a str entry: the number, or ValueError
CanInt(v) == IsInt(v) \/ (IsStr(v) /\ IsPyIntLiteral(v[2]))
AsInt(v)  == IF IsInt(v) THEN v[2] ELSE IntOf(v[2])

Min(a, b) == IF a <= b THEN a ELSE b
Max(a, b) == IF a >= b THEN a ELSE b

\* int(o * (n / d)) in IEEE-754 doubles: the floor of o*n/d, except where the
\* rounded quotient times o falls just below an exact integer.  The triples
\* <<o, n, d>> are those among o, d in {1..6, 47, 49}, n in {1..7, 48, 16384}.
FloatShortfall ==
    {<<47, 3, 47>>, <<47, 6, 47>>, <<47, 48, 47>>,
     <<49, 1, 49>>, <<49, 2, 49>>, <<49, 4, 49>>, <<49, 16384, 49>>}
ScaleDim(o, n, d) ==
    IF <<o, n, d>> \in FloatShortfall THEN (o * n) \div d - 1 ELSE (o * n) \div d

\* the result of one call
\* target: the size handed to img.resize; out: the size of the image returned;
\* at: the crop origin (fill) or the paste position (pad)
Outcome(kind, detail, target, out, at) ==
    [kind |-> kind, detail |-> detail, target |-> target, out |-> out, at |-> at]
NoSize == <<0, 0>>
\* raise HTTPException(500, "Failed to resize image: ...") (lines 215-217)
Failed(field, msg) == Outcome("error", <<field, msg>>, NoSize, NoSize, NoSize)
\* return image_data (lines 52-54 and alike)
Skipped(size, target) == Outcome("skip", <<"", "">>, target, size, NoSize)
\* img.resize(target) and what follows produced an image of size out;
\* Image.resize raises ValueError for a size below 1x1
Resized(target, out, at) ==
    IF target[1] < 1 \/ target[2] < 1
    THEN Outcome("error", <<"", "height and width must be > 0">>, target, NoSize, NoSize)
    ELSE Outcome("ok", <<"", "">>, target, out, at)

\* lines 23-27
\* variant: the upper bound is not checked
InRangeNoUpper(value) == MinSize <= value
InRange(value) == MinSize <= value /\ value <= MaxSizeParam
RangeMsg == "must be between 1 and 16384"

\* line 33: limit = resize_params.get('limit', '1') == '1'
LimitOn(params) == Get(params, K_limit, PyStr(<<"1">>)) = PyStr(<<"1">>)

\* lines 52, 80, 117, ...: limit and (new_width > original_width or ...)
\* variant: the limit test is dropped
ExceedsNever(size, target) == FALSE
Exceeds(size, target) == target[1] > size[1] \/ target[2] > size[2]

\* lines 39-57
\* variant: both sides are scaled from the width
ResizePercentFromWidth(size, params) ==
    LET pv == params[K_p] IN
    IF ~CanInt(pv) THEN Failed("", "invalid literal for int()")
    ELSE LET pp == AsInt(pv) IN
         IF ~(MinPercent <= pp /\ pp <= MaxPercent)
         THEN Failed("p", "must be between 1 and 1000")
         ELSE LET target == <<(size[1] * pp) \div 100, (size[1] * pp) \div 100>> IN
              IF LimitOn(params) /\ Exceeds(size, target)
              THEN Skipped(size, target)
              ELSE Resized(target, target, NoSize)
ResizePercent(size, params) ==
    LET pv == params[K_p] IN
    IF ~CanInt(pv) THEN Failed("", "invalid literal for int()")
    ELSE LET pp == AsInt(pv) IN
         IF ~(MinPercent <= pp /\ pp <= MaxPercent)
         THEN Failed("p", "must be between 1 and 1000")
         ELSE LET target == <<(size[1] * pp) \div 100, (size[2] * pp) \div 100>> IN
              IF LimitOn(params) /\ Exceeds(size, target)
              THEN Skipped(size, target)
              ELSE Resized(target, target, NoSize)

\* lines 75-85, given the ratio n/d
ScaleBy(size, params, n, d) ==
    LET target == <<ScaleDim(size[1], n, d), ScaleDim(size[2], n, d)>> IN
    IF LimitOn(params) /\ Exceeds(size, target)
    THEN Skipped(size, target)
    ELSE Resized(target, target, NoSize)

\* lines 59-85
ResizeSide(size, params) ==
    LET lv == Get(params, K_l, PyNone)
        sv == Get(params, K_s, PyNone) IN
    IF Truthy(lv)
    THEN IF ~CanInt(lv) THEN Failed("", "invalid literal for int()")
         ELSE IF ~InRange(AsInt(lv)) THEN Failed("l", RangeMsg)
         ELSE ScaleBy(size, params, AsInt(lv), Max(size[1], size[2]))
    ELSE IF Truthy(sv)
    THEN IF ~CanInt(sv) THEN Failed("", "invalid literal for int()")
         ELSE IF ~InRange(AsInt(sv)) THEN Failed("s", RangeMsg)
         ELSE ScaleBy(size, params, AsInt(sv), Min(size[1], size[2]))
    ELSE Failed("", "local variable 'ratio' referenced before assignment")

\* lines 18-21: hex_to_rgb; int(pair, 16) of the three pairs after lstrip('#')
HexDigits == {"0", "1", "2", "3", "4", "5", "6", "7", "8", "9",
              "a", "b", "c", "d", "e", "f", "A", "B", "C", "D", "E", "F"}
IsHexGroup(b) ==
    /\ Len(b) > 0
    /\ \A i \in 1..Len(b) : b[i] \in HexDigits \/ b[i] = "_"
    /\ b[1] \in HexDigits /\ b[Len(b)] \in HexDigits
    /\ \A i \in 1..(Len(b) - 1) : ~(b[i] = "_" /\ b[i + 1] = "_")
IsHexLiteral(x) == IsHexGroup(Unsigned(Strip(x)))
RECURSIVE LStripHash(_)
LStripHash(x) == IF Len(x) > 0 /\ x[1] = "#" THEN LStripHash(Tail(x)) ELSE x
Slice(x, a, b) == SubSeq(x, Min(a, Len(x) + 1), Min(b, Len(x)))
HexOk(color) ==
    LET hx == LStripHash(color) IN
    \A i \in {1, 3, 5} : IsHexLiteral(Slice(hx, i, i + 1))

\* lines 97-100: the w and h that pass "if w:" are converted and validated;
\* the result is the first failure, or none
SizeCheck(v, name) ==
    IF ~Truthy(v) THEN <<>>
    ELSE IF ~CanInt(v) THEN <<"", "invalid literal for int()">>
    ELSE IF ~InRange(AsInt(v)) THEN <<name, RangeMsg>>
    ELSE <<>>

\* lines 103-143: lfit (pickMin) and mfit; w, h are integers or false values
FitRatio(size, w, h, pickMin) ==
    LET byW == IF pickMin THEN w[2] * size[2] <= h[2] * size[1]
                          ELSE w[2] * size[2] >= h[2] * size[1] IN
    IF Truthy(w) /\ Truthy(h)
    THEN IF byW THEN <<TRUE, w[2], size[1]>> ELSE <<TRUE, h[2], size[2]>>
    ELSE IF Truthy(w) THEN <<TRUE, w[2], size[1]>>
    ELSE IF IsInt(h) THEN <<TRUE, h[2], size[2]>>
    ELSE <<FALSE, 0, 1>>

\* lines 87-206
ResizeWH(size, params) ==
    LET wv == Get(params, K_w, PyNone)
        hv == Get(params, K_h, PyNone)
        mode == Get(params, K_m, LFIT)
        color == Get(params, K_color, PyStr(<<"F", "F", "F", "F", "F", "F">>))
        wbad == SizeCheck(wv, "w")
        hbad == SizeCheck(hv, "h") IN
    IF wbad # <<>> THEN Failed(wbad[1], wbad[2])
    ELSE IF hbad # <<>> THEN Failed(hbad[1], hbad[2])
    ELSE
    LET w == IF Truthy(wv) THEN PyInt(AsInt(wv)) ELSE wv
        h == IF Truthy(hv) THEN PyInt(AsInt(hv)) ELSE hv
        both == Truthy(w) /\ Truthy(h) IN
    IF mode \in {LFIT, MFIT}
    THEN LET r == FitRatio(size, w, h, mode = LFIT) IN
         IF ~r[1] THEN Failed("", "unsupported operand type(s) for /")
         ELSE ScaleBy(size, params, r[2], r[3])
    ELSE IF mode = FILL
    THEN IF ~both THEN Failed("", "Both width and height are required for fill mode")
         ELSE LET r == FitRatio(size, w, h, FALSE)
                  target == <<ScaleDim(size[1], r[2], r[3]), ScaleDim(size[2], r[2], r[3])>> IN
              IF LimitOn(params) /\ Exceeds(size, target) THEN Skipped(size, target)
              ELSE Resized(target, <<w[2], h[2]>>,
                           <<(target[1] - w[2]) \div 2, (target[2] - h[2]) \div 2>>)
    ELSE IF mode = PAD
    THEN IF ~both THEN Failed("", "Both width and height are required for pad mode")
         ELSE LET r == FitRatio(size, w, h, TRUE)
                  target == <<ScaleDim(size[1], r[2], r[3]), ScaleDim(size[2], r[2], r[3])>>
                  done == Resized(target, <<w[2], h[2]>>,
                                  <<(w[2] - target[1]) \div 2, (h[2] - target[2]) \div 2>>) IN
              IF LimitOn(params) /\ Exceeds(size, target) THEN Skipped(size, target)
              ELSE IF done.kind = "ok" /\ ~(IsStr(color) /\ HexOk(color[2]))
              THEN Failed("", "invalid literal for int() with base 16")
              ELSE done
    ELSE IF mode = FIXED
    THEN IF ~both THEN Failed("", "Both width and height are required for fixed mode")
         ELSE IF LimitOn(params) /\ Exceeds(size, <<w[2], h[2]>>)
         THEN Skipped(size, <<w[2], h[2]>>)
         ELSE Resized(<<w[2], h[2]>>, <<w[2], h[2]>>, NoSize)
    ELSE Outcome("ok", <<"", "">>, NoSize, size, NoSize)

\* lines 29-217: the branch is chosen by which keys are present
\* variant: the width/height branch is tested first
ResizeWidthHeightFirst(size, params) ==
    IF Has(params, K_w) \/ Has(params, K_h) THEN ResizeWH(size, params)
    ELSE IF Has(params, K_p) THEN ResizePercent(size, params)
    ELSE IF Has(params, K_l) \/ Has(params, K_s) THEN ResizeSide(size, params)
    ELSE Failed("", "Invalid resize parameters")
resize_image(size, params) ==
    IF Has(params, K_p) THEN ResizePercent(size, params)
    ELSE IF Has(params, K_l) \/ Has(params, K_s) THEN ResizeSide(size, params)
    ELSE IF Has(params, K_w) \/ Has(params, K_h) THEN ResizeWH(size, params)
    ELSE Failed("", "Invalid resize parameters")

-----------------------------------------------------------------------------
(* Inputs of resize_image: a decoded image size and a resize_params dict    *)

MaxSrc == 2
MaxTgt == 3

\* 47x47 is the smallest square source on which the float product falls short,
\* 49x49 the smallest on which 49 * (1 / 49) does
SrcSizes == ((1..MaxSrc) \X (1..MaxSrc)) \cup {<<47, 47>>, <<49, 49>>}
Absent == PyNone
PercentOpts == {Absent, PyInt(0), PyInt(1), PyInt(50), PyInt(150), PyInt(MaxPercent + 1)}
SideOpts == {Absent, PyInt(0), PyInt(MaxSizeParam + 1)} \cup {PyInt(n) : n \in 1..(MaxTgt - 1)}
SizeOpts == {Absent, PyInt(-1), PyInt(0), PyInt(48), PyInt(MaxSizeParam + 1), PyStr(<<"x">>)}
                \cup {PyInt(n) : n \in 1..MaxTgt}
ModeOpts == {Absent} \cup ResizeMode
LimitOpts == {Absent, PyStr(<<"1">>), PyStr(<<"0">>), PyInt(1)}
ColorOpts == {Absent, PyStr(<<"z", "z">>)}
ShadowedOpts == {Absent, PyInt(1), PyInt(MaxSizeParam + 1)}

ResizeKeys == <<K_p, K_l, K_s, K_w, K_h, K_m, K_limit, K_color>>
\* the dict that holds vals[i] under ResizeKeys[i] wherever vals[i] is given
MkParams(vals) ==
    LET present == {i \in 1..Len(ResizeKeys) : vals[i] # Absent} IN
    [k \in {ResizeKeys[i] : i \in present} |->
        vals[CHOOSE i \in present : ResizeKeys[i] = k]]

\* parameters of at most two of the three groups; those of a group that an
\* earlier branch shadows come from ShadowedOpts
SideAllowed(pv, lv, sv) ==
    IF pv # Absent THEN {lv, sv} \subseteq ShadowedOpts ELSE TRUE
SizeAllowed(pv, lv, sv, wv, hv) ==
    IF pv # Absent /\ (lv # Absent \/ sv # Absent) THEN wv = Absent /\ hv = Absent
    ELSE IF pv # Absent \/ lv # Absent \/ sv # Absent THEN {wv, hv} \subseteq ShadowedOpts
    ELSE TRUE
\* a colour only with pad
ColorAllowed(mv, cv) == IF cv # Absent THEN mv = PAD ELSE TRUE

InitResize ==
    /\ \E pv \in PercentOpts, lv \in SideOpts, sv \in SideOpts :
          /\ SideAllowed(pv, lv, sv) = TRUE
          /\ \E wv \in SizeOpts, hv \in SizeOpts :
                /\ SizeAllowed(pv, lv, sv, wv, hv) = TRUE
                /\ \E mv \in ModeOpts, lim \in LimitOpts, cv \in ColorOpts :
                      /\ ColorAllowed(mv, cv) = TRUE
                      /\ resize_params = MkParams(<<pv, lv, sv, wv, hv, mv, lim, cv>>)
    /\ src_size \in SrcSizes
    /\ resized = NotRun
    /\ IdleParse
    /\ IdleChain
    /\ IdleUnits

\* one call of resize_image, by the branch it takes
CallPercent ==
    /\ resized = NotRun /\ Has(resize_params, K_p)
    /\ resized' = resize_image(src_size, resize_params)
    /\ UNCHANGED <<src_size, resize_params, varsParse, varsChain, varsUnits>>
CallSide ==
    /\ resized = NotRun /\ ~Has(resize_params, K_p)
    /\ {K_l, K_s} \cap DOMAIN resize_params # {}
    /\ resized' = resize_image(src_size, resize_params)
    /\ UNCHANGED <<src_size, resize_params, varsParse, varsChain, varsUnits>>
CallWidthHeight ==
    /\ resized = NotRun /\ ~Has(resize_params, K_p)
    /\ {K_l, K_s} \cap DOMAIN resize_params = {}
    /\ {K_w, K_h} \cap DOMAIN resize_params # {}
    /\ resized' = resize_image(src_size, resize_params)
    /\ UNCHANGED <<src_size, resize_params, varsParse, varsChain, varsUnits>>
CallInvalid ==
    /\ resized = NotRun
    /\ {K_p, K_l, K_s, K_w, K_h} \cap DOMAIN resize_params = {}
    /\ resized' = resize_image(src_size, resize_params)
    /\ UNCHANGED <<src_size, resize_params, varsParse, varsChain, varsUnits>>

NextResize == CallPercent \/ CallSide \/ CallWidthHeight \/ CallInvalid
SpecResize == InitResize /\ [][NextResize]_vars

-----------------------------------------------------------------------------
(* Claims about resize_image, under SpecResize *)

SizeKeyNames == (K_w :> "w") @@ (K_h :> "h") @@ (K_l :> "l") @@ (K_s :> "s")
\* the w, h, l, s entries that hold an integer outside 1..16384
OutOfRange(params) ==
    {k \in DOMAIN SizeKeyNames :
        /\ Has(params, k) /\ IsInt(params[k])
        /\ ~(1 <= params[k][2] /\ params[k][2] <= 16384)}

\* C7: a resize whose w, h, l or s lies outside 1..16384 (0 and negative
\* values included) fails with an error that names an offending field, and
\* no target size is computed for it.
C7_OutOfRangeRejected ==
    (resized # NotRun /\ OutOfRange(resize_params) # {}) =>
        /\ resized.kind = "error"
        /\ resized.detail[1] \in {SizeKeyNames[k] : k \in OutOfRange(resize_params)}
        /\ resized.target = NoSize

GroupP    == {K_p}
GroupSide == {K_l, K_s}
GroupWH   == {K_w, K_h}
GroupsPresent(params) ==
    {g \in {GroupP, GroupSide, GroupWH} : g \cap DOMAIN params # {}}
Mixed(params) ==
    Cardinality(GroupsPresent(params)) > 1 \/ GroupSide \subseteq DOMAIN params

ActiveKeys(params) ==
    {K_limit} \cup
    (IF Has(params, K_p) THEN {K_p}
     ELSE IF GroupSide \cap DOMAIN params # {}
          THEN (IF Truthy(Get(params, K_l, PyNone)) THEN {K_l} ELSE {K_l, K_s})
          ELSE {K_w, K_h, K_m, K_color})
Restrict(params, keys) == [k \in (DOMAIN params) \cap keys |-> params[k]]

LimitGivenTrue(params) == ~Has(params, K_limit) \/ params[K_limit] = PyStr(<<"1">>)

\* C10: with limit true no resize returns an image larger than the source in
\* either dimension, whatever the mode.
C10_LimitNeverLarger ==
    (resized # NotRun /\ resized.kind \in {"ok", "skip"} /\ LimitGivenTrue(resize_params)) =>
        /\ resized.out[1] <= src_size[1]
        /\ resized.out[2] <= src_size[2]

-----------------------------------------------------------------------------
(* image-processor/image_processor.py: process_image                        *)
(* audio-processor/audio_processor.py: process_audio                        *)
(*                                                                          *)
(* A buffer of bytes is described by what it holds: its kind, the size of   *)
(* the image in it, and the transforms that wrote it, in order.  Transforms *)
(* whose result depends on things outside the pipeline (the imaging         *)
(* modules that are not part of the repository, S3, DynamoDB, the font      *)
(* file, ffmpeg) take their outcome from ext.                               *)

Buffer(kind, size, trace) == [kind |-> kind, size |-> size, trace |-> trace]
Label(op, arg) == [op |-> op, arg |-> arg]
Written(buf, op, arg) == [buf EXCEPT !.trace = Append(@, Label(op, arg))]
NotImage(buf) == buf.kind # "image"

ExtOutcomes == {"raise", "same", "small"}

\* how the body of one turn of the loop ends: normally with the new buffer,
\* or raising; status is that of a ProcessingError, 0 for any other exception
StepOk(buf, effects) ==
    [ok |-> TRUE, status |-> 0, detail |-> "", buf |-> buf, effects |-> effects]
StepRaise(status, detail, buf, effects) ==
    [ok |-> FALSE, status |-> status, detail |-> detail, buf |-> buf, effects |-> effects]

\* a call into an imaging module or service
External(buf, op, ext) ==
    IF ext = "raise" THEN StepRaise(0, "transform failed", buf, {})
    ELSE StepOk(Written(buf, op, PyNone), {})

\* str.zfill(6)
RECURSIVE Zeros(_)
Zeros(n) == IF n <= 0 THEN <<>> ELSE <<"0">> \o Zeros(n - 1)
ZFill6(s) ==
    IF Len(s) >= 6 THEN s
    ELSE IF Len(s) > 0 /\ s[1] \in {"+", "-"} THEN <<s[1]>> \o Zeros(6 - Len(s)) \o Tail(s)
    ELSE Zeros(6 - Len(s)) \o s
\* lines 173-175 and 202-204: if color and len(color) < 6: color = color.zfill(6)
PadColor(color) ==
    IF Len(color[2]) > 0 /\ Len(color[2]) < 6 THEN PyStr(ZFill6(color[2])) ELSE color

\* base64.urlsafe_b64decode(padded).decode('utf-8') of the texts that occur
B64_Hi == <<"S", "G", "k">>
B64_logo == <<"b", "G", "9", "n", "b", "w">>
B64_Protected == <<"U", "H", "J", "v", "d", "G", "V", "j", "d", "G", "V", "k">>
B64_bad == <<"A">>
DecodeText(encoded) ==
    IF encoded = B64_Hi THEN [ok |-> TRUE, text |-> <<"H", "i">>]
    ELSE IF encoded = B64_logo THEN [ok |-> TRUE, text |-> <<"l", "o", "g", "o">>]
    ELSE IF encoded = B64_Protected THEN [ok |-> TRUE, text |-> <<"P", "r", "o", "t", "e", "c", "t", "e", "d">>]
    ELSE IF encoded = <<>> THEN [ok |-> TRUE, text |-> <<>>]
    ELSE [ok |-> FALSE, text |-> <<>>]

\* ---- resize (lines 148-179)
ModeOfName ==
    (<<"l", "f", "i", "t">> :> LFIT) @@ (<<"m", "f", "i", "t">> :> MFIT) @@ (<<"f", "i", "l", "l">> :> FILL)
        @@ (<<"p", "a", "d">> :> PAD) @@ (<<"f", "i", "x", "e", "d">> :> FIXED)
IsModeName(v) == IsStr(v) /\ v[2] \in DOMAIN ModeOfName
ResizeCopied == {K_p, K_w, K_h, K_m, K_l, K_s, K_limit, K_color}
BuildResizeParams(params) ==
    [k \in ResizeCopied \cap DOMAIN params |->
        IF k = K_m THEN ModeOfName[params[k][2]]
        ELSE IF k = K_color THEN PadColor(params[k])
        ELSE params[k]]
DoResize(params, buf) ==
    IF Has(params, K_m) /\ ~IsModeName(params[K_m])
    THEN StepRaise(0, "is not a valid ResizeMode", buf, {})
    ELSE IF NotImage(buf) THEN StepRaise(0, "Failed to resize image", buf, {})
    ELSE LET r == resize_image(buf.size, BuildResizeParams(params)) IN
         IF r.kind = "error" THEN StepRaise(0, "Failed to resize image", buf, {})
         ELSE IF r.kind = "skip" THEN StepOk(buf, {})
         ELSE StepOk(Written([buf EXCEPT !.size = r.out], "resize", PyNone), {})

\* ---- crop (lines 180-189); a crop returns an image no larger than its input
DoCrop(buf, ext) ==
    IF ext = "raise" THEN StepRaise(0, "transform failed", buf, {})
    ELSE StepOk(Written([buf EXCEPT !.size = IF ext = "small" THEN <<1, 1>> ELSE @],
                        "crop", PyNone), {})

\* ---- watermark (lines 191-251 and image_watermark.py)
K_rotate == OP_rotate
ValidPositions ==
    {PyStr(<<"n", "w">>), PyStr(<<"n", "o", "r", "t", "h">>), PyStr(<<"n", "e">>), PyStr(<<"w", "e", "s", "t">>), PyStr(<<"c", "e", "n", "t", "e", "r">>),
     PyStr(<<"e", "a", "s", "t">>), PyStr(<<"s", "w">>), PyStr(<<"s", "o", "u", "t", "h">>), PyStr(<<"s", "e">>)}

\* a check "lo <= v <= hi": passes, raises TypeError for a str, or fails
RangeFault(v, lo, hi, msg) ==
    IF ~IsInt(v) THEN "TypeError"
    ELSE IF lo <= v[2] /\ v[2] <= hi THEN "" ELSE msg
FirstFault(faults) ==
    IF \A i \in 1..Len(faults) : faults[i] = "" THEN ""
    ELSE faults[CHOOSE i \in 1..Len(faults) :
                    faults[i] # "" /\ \A j \in 1..(i - 1) : faults[j] = ""]

\* BaseWatermarkParams.validate (image_watermark.py lines 27-52)
BaseValidate(wp) ==
    FirstFault(<<
        RangeFault(wp[K_t], 0, 100, "Transparency must be between 0 and 100"),
        IF wp[K_g] \in ValidPositions THEN "" ELSE "Invalid position",
        RangeFault(wp[K_x], 0, 4096, "Horizontal margin must be between 0 and 4096"),
        RangeFault(wp[K_y], 0, 4096, "Vertical margin must be between 0 and 4096"),
        RangeFault(wp[K_voffset], -1000, 1000, "Vertical offset must be between -1000 and 1000"),
        IF wp[K_fill] \in {PyInt(0), PyInt(1)} THEN "" ELSE "Fill must be 0 or 1",
        RangeFault(wp[K_padx], 0, 4096, "Horizontal padding must be between 0 and 4096"),
        RangeFault(wp[K_pady], 0, 4096, "Vertical padding must be between 0 and 4096")>>)

\* re.match(r'^[0-9A-Fa-f]{6}$', color)
IsHexColor(c) == Len(c) = 6 /\ \A i \in 1..6 : c[i] \in HexDigits

\* TextWatermarkParams.validate (lines 81-93)
TextValidate(wp) ==
    FirstFault(<<
        BaseValidate(wp),
        IF wp[K_text] = PyStr(<<>>) THEN "Text parameter is required" ELSE "",
        RangeFault(wp[K_size], 1, 1000, "Font size must be between 1 and 1000"),
        RangeFault(wp[K_shadow], 0, 100, "Shadow transparency must be between 0 and 100"),
        RangeFault(wp[K_rotate], 0, 360, "Rotation angle must be between 0 and 360"),
        IF IsHexColor(wp[K_color][2]) THEN "" ELSE "Invalid color format">>)

\* ImageWatermarkParams.validate (lines 61-67); image is str(image)
ImageValidate(wp) ==
    FirstFault(<<
        BaseValidate(wp),
        IF wp[K_image] = PyStr(<<>>) THEN "Image parameter is required" ELSE "",
        IF Has(wp, K_bigP)
        THEN RangeFault(wp[K_bigP], 1, 100, "Proportional scaling must be between 1 and 100")
        ELSE "">>)

\* add_watermark (lines 387-422): a text watermark when text is given, an
\* image watermark when image is given; the decoded text is wp[K_text]
add_watermark(buf, wp, ext) ==
    LET tfault == IF Has(wp, K_text) THEN TextValidate(wp) ELSE ""
        ifault == IF Has(wp, K_image) THEN ImageValidate(wp) ELSE ""
        withText == IF Has(wp, K_text)
                    THEN Written(buf, "watermark text", wp[K_text]) ELSE buf
        withBoth == IF Has(wp, K_image)
                    THEN Written(withText, "watermark image", wp[K_image]) ELSE withText IN
    IF tfault # "" THEN StepRaise(0, tfault, buf, {})
    ELSE IF ifault # "" THEN StepRaise(0, ifault, buf, {})
    ELSE IF NotImage(buf) THEN StepRaise(0, "Failed to open image", buf, {})
    ELSE IF ext = "raise" THEN StepRaise(0, "Failed to load", buf, {})
    ELSE StepOk(withBoth, {})

\* lines 202-219
WatermarkDefaults ==
    (K_color :> PyStr(<<"0", "0", "0", "0", "0", "0">>)) @@ (K_t :> PyInt(100)) @@ (K_g :> PyStr(<<"s", "e">>))
        @@ (K_x :> PyInt(10)) @@ (K_y :> PyInt(10)) @@ (K_voffset :> PyInt(0))
        @@ (K_fill :> PyInt(0)) @@ (K_padx :> PyInt(0)) @@ (K_pady :> PyInt(0))
        @@ (K_size :> PyInt(40)) @@ (K_shadow :> PyInt(0)) @@ (K_rotate :> PyInt(0))
BaseWatermarkParams(params) ==
    [k \in DOMAIN WatermarkDefaults |->
        IF k = K_color THEN PadColor(Get(params, k, WatermarkDefaults[k]))
        ELSE Get(params, k, WatermarkDefaults[k])]

DefaultText == <<"W", "a", "t", "e", "r", "m", "a", "r", "k">>
\* lines 221-240: which watermark the operation carries.  text wins over
\* image; with neither the default text is used
\* variant: exactly one of text and image is demanded
SelectWatermarkExactlyOne(params, wp) ==
    IF Has(params, K_text) = Has(params, K_image)
    THEN [ok |-> FALSE, wp |-> wp]
    ELSE IF Has(params, K_text)
    THEN LET d == DecodeText(params[K_text][2]) IN
         [ok |-> d.ok, wp |-> Put(wp, K_text, PyStr(d.text))]
    ELSE [ok |-> TRUE, wp |-> Put(wp, K_image, params[K_image])]
SelectWatermark(params, wp) ==
    IF Has(params, K_text)
    THEN LET d == DecodeText(params[K_text][2]) IN
         [ok |-> d.ok, wp |-> Put(wp, K_text, PyStr(d.text))]
    ELSE IF Has(params, K_image)
    THEN [ok |-> TRUE,
          wp |-> LET w1 == Put(wp, K_image, params[K_image]) IN
                 IF Has(params, K_bigP) THEN Put(w1, K_bigP, params[K_bigP]) ELSE w1]
    ELSE [ok |-> TRUE, wp |-> Put(wp, K_text, PyStr(DefaultText))]

DoWatermark(params, buf, ext) ==
    LET sel == SelectWatermark(params, BaseWatermarkParams(params)) IN
    IF ~sel.ok
    THEN StepRaise(400, "Invalid URL-safe base64-encoded watermark text", buf, {"create"})
    ELSE LET r == add_watermark(buf, sel.wp, ext) IN
         IF r.ok THEN StepOk(r.buf, {"create", "upload", "complete"})
         ELSE StepRaise(0, r.detail, buf, {"create"})

\* ---- blindwatermark (lines 269-324), deblindwatermark (lines 326-337)
DoBlindWatermark(params, buf, ext) ==
    LET enc == Get(params, K_content, Get(params, K_context, PyStr(B64_Protected)))
        d == DecodeText(enc[2])
        block == Get(params, K_block, PyInt(4)) IN
    IF ~d.ok
    THEN StepRaise(400, "Invalid URL-safe base64-encoded watermark text", buf, {"create"})
    ELSE IF block \notin {PyInt(4), PyInt(8), PyInt(16), PyInt(32)}
    THEN StepRaise(400, "Invalid block size", buf, {"create"})
    ELSE IF ext = "raise" \/ NotImage(buf)
    THEN StepRaise(0, "transform failed", buf, {"create"})
    ELSE StepOk(Written(buf, "blindwatermark", PyStr(d.text)),
                {"create", "upload", "complete"})
DoDeblindWatermark(buf, ext) ==
    IF ext = "raise" \/ NotImage(buf)
    THEN StepRaise(0, "transform failed", buf, {"create"})
    ELSE StepOk(Written(Buffer("json", NoSize, buf.trace), "deblindwatermark", PyNone),
                {"create", "complete"})

\* ---- rotate (lines 338-350 and image_rotate.py), blur (lines 351-367), grayscale
DoRotate(params, buf) ==
    LET degree == Get(params, K_degree, PyInt(90)) IN
    IF degree \notin {PyInt(90), PyInt(180), PyInt(270)}
    THEN StepRaise(400, "Invalid rotation degree", buf, {})
    ELSE IF NotImage(buf) THEN StepRaise(0, "cannot identify image file", buf, {})
    ELSE StepOk(Written([buf EXCEPT !.size = IF degree = PyInt(180) THEN @
                                              ELSE <<@[2], @[1]>>],
                        "rotate", degree), {})
DoBlur(params, buf) ==
    LET radius == Get(params, K_radius, PyInt(2)) IN
    IF ~CanInt(radius) \/ AsInt(radius) <= 0
    THEN StepRaise(400, "Invalid blur radius", buf, {})
    ELSE IF NotImage(buf) THEN StepRaise(0, "cannot identify image file", buf, {})
    ELSE StepOk(Written(buf, "blur", PyInt(AsInt(radius))), {})
DoGrayscale(buf) ==
    IF NotImage(buf) THEN StepRaise(0, "cannot identify image file", buf, {})
    ELSE StepOk(Written(buf, "grayscale", PyNone), {})

\* ---- the if/elif chain of lines 142-374
ImageOps ==
    {OP_auto_orient, OP_resize, OP_crop, OP_watermark, OP_format, OP_quality,
     OP_blindwatermark, OP_deblindwatermark, OP_rotate, OP_blur, OP_grayscale}
KnownImageOperation(operation, params, buf, ext) ==
    IF operation = OP_auto_orient THEN External(buf, "auto-orient", ext)
    ELSE IF operation = OP_resize THEN DoResize(params, buf)
    ELSE IF operation = OP_crop THEN DoCrop(buf, ext)
    ELSE IF operation = OP_watermark THEN DoWatermark(params, buf, ext)
    ELSE IF operation = OP_format THEN External(buf, "format", ext)
    ELSE IF operation = OP_quality THEN External(buf, "quality", ext)
    ELSE IF operation = OP_blindwatermark THEN DoBlindWatermark(params, buf, ext)
    ELSE IF operation = OP_deblindwatermark THEN DoDeblindWatermark(buf, ext)
    ELSE IF operation = OP_rotate THEN DoRotate(params, buf)
    ELSE IF operation = OP_blur THEN DoBlur(params, buf)
    ELSE DoGrayscale(buf)
\* variant: a name that is not recognised is passed over
ImageOperationSkipUnknown(operation, params, buf, ext) ==
    IF operation \in ImageOps THEN KnownImageOperation(operation, params, buf, ext)
    ELSE StepOk(buf, {})
ImageOperation(operation, params, buf, ext) ==
    IF operation \in ImageOps THEN KnownImageOperation(operation, params, buf, ext)
    ELSE StepRaise(400, "Unknown operation", buf, {})

-----------------------------------------------------------------------------
(* audio-processor: parse_operation, validate_params, convert_audio *)

AudioNumericKeys == {<<"s", "s">>, <<"t">>, <<"a", "r">>, <<"a", "c">>, <<"a", "q">>, <<"a", "b">>, <<"a", "d", "e", "p", "t", "h">>}
K_ar == <<"a", "r">>
K_ac == <<"a", "c">>
K_aq == <<"a", "q">>
K_ab == <<"a", "b">>
K_abopt == <<"a", "b", "o", "p", "t">>
K_adepth == <<"a", "d", "e", "p", "t", "h">>

\* audio_processor.py lines 43-53: one turn of the loop over parts[1:];
\* key, value = param.split('_') raises ValueError unless there are two parts
AudioParam(params, param) ==
    IF ~Contains(param, "_") THEN [raised |-> "", params |-> params]
    ELSE LET kv == Split(param, "_") IN
         IF Len(kv) # 2 THEN [raised |-> "ValueError", params |-> params]
         ELSE IF kv[1] \in AudioNumericKeys
         THEN IF IsPyIntLiteral(kv[2])
              THEN [raised |-> "", params |-> Put(params, kv[1], PyInt(IntOf(kv[2])))]
              ELSE [raised |-> "Invalid numeric value", params |-> params]
         ELSE [raised |-> "", params |-> Put(params, kv[1], PyStr(kv[2]))]

RECURSIVE AudioParams(_, _)
AudioParams(params, rest) ==
    IF Len(rest) = 0 THEN [raised |-> "", params |-> params]
    ELSE LET r == AudioParam(params, rest[1]) IN
         IF r.raised # "" THEN r ELSE AudioParams(r.params, Tail(rest))

\* audio_processor.py lines 29-59
audio_parse_operation(s) ==
    LET parts == Split(s, ",") IN
    LET r == AudioParams(EmptyDict, Tail(parts)) IN
    IF r.raised # "" THEN [kind |-> "raise", exc |-> r.raised]
    ELSE IF parts[1] = OP_convert /\ ~Has(r.params, K_f)
    THEN [kind |-> "raise", exc |-> "Output format (f) is required for convert operation"]
    ELSE [kind |-> "ok", operation |-> parts[1], params |-> r.params]

\* str.lower() for the ASCII letters
UpperCase == <<"A", "B", "C", "D", "E", "F", "G", "H", "I", "J", "K", "L", "M",
               "N", "O", "P", "Q", "R", "S", "T", "U", "V", "W", "X", "Y", "Z">>
LowerCase == <<"a", "b", "c", "d", "e", "f", "g", "h", "i", "j", "k", "l", "m",
               "n", "o", "p", "q", "r", "s", "t", "u", "v", "w", "x", "y", "z">>
Lower(s) ==
    [i \in 1..Len(s) |->
        IF \E j \in 1..26 : UpperCase[j] = s[i]
        THEN LowerCase[CHOOSE j \in 1..26 : UpperCase[j] = s[i]]
        ELSE s[i]]

AudioFormats == {<<"m", "p", "3">>, <<"m", "4", "a">>, <<"f", "l", "a", "c">>, <<"o", "g", "a">>, <<"a", "c", "3">>, <<"o", "p", "u", "s">>, <<"a", "m", "r">>}
ValidRates == {8000, 11025, 12000, 16000, 22050, 24000, 32000, 44100, 48000,
               64000, 88200, 96000}

\* audio_converter.py lines 35-50
\* variant: the AMR rule is missing
RateFaultWithoutAmr(format, params) ==
    IF ~Has(params, K_ar) THEN ""
    ELSE LET ar == params[K_ar][2] IN
         IF ar \notin ValidRates THEN "Invalid sample rate"
         ELSE IF format = <<"m", "p", "3">> /\ ar > 48000
         THEN "MP3 only supports sample rates up to 48kHz"
         ELSE IF format = <<"o", "p", "u", "s">> /\ ar \notin {8000, 12000, 16000, 24000, 48000}
         THEN "Opus only supports 8kHz, 12kHz, 16kHz, 24kHz, and 48kHz"
         ELSE IF format = <<"a", "c", "3">> /\ ar \notin {32000, 44100, 48000}
         THEN "AC3 only supports 32kHz, 44.1kHz, and 48kHz"
         ELSE ""
RateFault(format, params) ==
    IF ~Has(params, K_ar) THEN ""
    ELSE LET ar == params[K_ar][2] IN
         IF ar \notin ValidRates THEN "Invalid sample rate"
         ELSE IF format = <<"m", "p", "3">> /\ ar > 48000
         THEN "MP3 only supports sample rates up to 48kHz"
         ELSE IF format = <<"o", "p", "u", "s">> /\ ar \notin {8000, 12000, 16000, 24000, 48000}
         THEN "Opus only supports 8kHz, 12kHz, 16kHz, 24kHz, and 48kHz"
         ELSE IF format = <<"a", "c", "3">> /\ ar \notin {32000, 44100, 48000}
         THEN "AC3 only supports 32kHz, 44.1kHz, and 48kHz"
         ELSE IF format = <<"a", "m", "r">> /\ ar # 8000
         THEN "AMR-NB only supports 8kHz sample rate"
         ELSE ""
\* lines 52-64
ChannelFault(format, params) ==
    IF ~Has(params, K_ac) THEN ""
    ELSE LET ac == params[K_ac][2] IN
         IF ~(1 <= ac /\ ac <= 8) THEN "Invalid channel count"
         ELSE IF format = <<"m", "p", "3">> /\ ac > 2 THEN "MP3 only supports mono and stereo"
         ELSE IF format = <<"a", "c", "3">> /\ ac > 6 THEN "AC3 supports up to 6 channels (5.1)"
         ELSE IF format = <<"a", "m", "r">> /\ ac # 1 THEN "AMR only supports mono"
         ELSE ""
\* lines 66-78
\* variant: aq and ab may be given together
QualityFaultNotExclusive(params) ==
    FirstFault(<<
        IF Has(params, K_aq) /\ ~(0 <= params[K_aq][2] /\ params[K_aq][2] <= 100)
        THEN "Invalid quality value" ELSE "",
        IF Has(params, K_ab) /\ ~(1000 <= params[K_ab][2] /\ params[K_ab][2] <= 10000000)
        THEN "Invalid bitrate" ELSE "">>)
QualityFault(params) ==
    FirstFault(<<
        IF Has(params, K_aq) /\ Has(params, K_ab)
        THEN "Cannot specify both quality (aq) and bitrate (ab)" ELSE "",
        IF Has(params, K_aq) /\ ~(0 <= params[K_aq][2] /\ params[K_aq][2] <= 100)
        THEN "Invalid quality value" ELSE "",
        IF Has(params, K_ab) /\ ~(1000 <= params[K_ab][2] /\ params[K_ab][2] <= 10000000)
        THEN "Invalid bitrate" ELSE "">>)
\* lines 17-88: the message of the first check that fails, or none
validate_params(params) ==
    IF ~Has(params, K_f) THEN "Output format (f) is required"
    ELSE LET format == Lower(params[K_f][2]) IN
         IF format \notin AudioFormats THEN "Unsupported format"
         ELSE FirstFault(<<
            RateFault(format, params),
            ChannelFault(format, params),
            QualityFault(params),
            IF Has(params, K_abopt)
                  /\ params[K_abopt] \notin {PyStr(<<"0">>), PyStr(<<"1">>), PyStr(<<"2">>)}
            THEN "Invalid bitrate option" ELSE "",
            IF format = <<"f", "l", "a", "c">> /\ Has(params, K_adepth)
                  /\ params[K_adepth][2] \notin {16, 24}
            THEN "Invalid sample depth for FLAC" ELSE "">>)

\* lines 90-191: validation, then ffmpeg
convert_audio(buf, params, ext) ==
    LET fault == validate_params(params) IN
    IF fault # "" THEN StepRaise(0, fault, buf, {})
    ELSE IF ext = "raise" THEN StepRaise(0, "FFmpeg conversion failed", buf, {})
    ELSE StepOk(Written(Buffer("audio", NoSize, buf.trace), "convert", params[K_f]), {})

\* audio_processor.py lines 95-100
AudioOperation(operation, params, buf, ext) ==
    IF operation = OP_convert THEN convert_audio(buf, params, ext)
    ELSE StepRaise(400, "Unknown operation", buf, {})

-----------------------------------------------------------------------------
(* process_image and process_audio as state machines: one action per turn   *)
(* of the loop over the operation chain                                     *)

\* line 134 (audio: line 89): [op for op in operations.split('/') if op]
\* variant: empty segments are kept
SplitChainKeepEmpty(ops) == Split(ops, "/")
SplitChain(ops) == SelectSeq(Split(ops, "/"), LAMBDA op : op # <<>>)

\* the try block ends at the first exception: the loop goes on only after a
\* turn that did not raise
\* variant: the loop goes on regardless
LoopContinuesAlways(r) == TRUE
LoopContinues(r) == r.ok

NoBody == Buffer("none", NoSize, <<>>)
Response(buf) ==
    [kind |-> "response", exc |-> "", status |-> 200, detail |-> "", body |-> buf]
ErrorResult(exc, status, detail) ==
    [kind |-> "error", exc |-> exc, status |-> status, detail |-> detail, body |-> NoBody]

\* lines 399-409, task_id given: update_task_status(task_id, task_type, FAILED)
\* reads task_type, which is unbound until a segment has been parsed
ImageRaised(r, tt) ==
    IF tt = PyNone THEN ErrorResult("UnboundLocalError", 0, "task_type")
    ELSE IF r.status # 0 THEN ErrorResult("ProcessingError", r.status, r.detail)
    ELSE ErrorResult("ProcessingError", 500, r.detail)
\* audio_processor.py lines 120-125
AudioRaised(r) == ErrorResult("ProcessingError", 500, r.detail)

\* create_task_record puts 'processing', update_task_status COMPLETED overwrites it
AfterEffects(status, effects) ==
    IF "complete" \in effects THEN "completed"
    ELSE IF "create" \in effects THEN "processing"
    ELSE status

\* what one turn of the loop did
Turn(seg, p, ext, r, bufIn) ==
    [seg |-> seg, parsed |-> p, ext |-> ext, raised |-> ~r.ok, status |-> r.status,
     detail |-> r.detail, bufIn |-> bufIn, bufOut |-> IF r.ok THEN r.buf ELSE bufIn,
     effects |-> r.effects]

SourceSize == <<4, 2>>
SourceOf(p) ==
    IF p = "image" THEN Buffer("image", SourceSize, <<>>) ELSE Buffer("audio", NoSize, <<>>)

\* ---- inputs: the operations string is composed from segments
MaxSegs == 3

Empty == Seg(<<>>, <<>>)
SEG_resize_half == Seg(OP_resize, <<Keyed(K_p, <<"5", "0">>)>>)
SEG_format_png == Seg(OP_format, <<Bare(<<"p", "n", "g">>)>>)
SEG_grayscale == Seg(OP_grayscale, <<>>)
SEG_watermark == Seg(OP_watermark, <<>>)
TOK_limit == Keyed(K_limit, <<"1">>)
SEG_resize_double == Seg(OP_resize, <<Keyed(K_p, <<"2", "0", "0">>)>>)
SEG_resize_double_limit == Seg(OP_resize, <<Keyed(K_p, <<"2", "0", "0">>), TOK_limit>>)
TOK_text == Keyed(K_text, B64_Hi)
TOK_image == Keyed(K_image, B64_logo)
ImageMenu ==
    {SEG_resize_half, SEG_format_png, SEG_grayscale, SEG_watermark,
     Seg(OP_resize, <<Keyed(K_w, <<"9", "9", "9", "9", "9">>)>>),
     Seg(OP_foo, <<Keyed(K_p, <<"5", "0">>)>>),
     Seg(OP_rotate, <<Bare(<<"9", "0">>)>>),
     Seg(OP_rotate, <<Bare(<<"4", "5">>)>>),
     Seg(OP_rotate, <<Keyed(K_p, <<"5", "0">>)>>),
     Seg(OP_watermark, <<TOK_text>>),
     Seg(OP_watermark, <<TOK_text, TOK_image>>),
     Seg(OP_watermark, <<TOK_image>>),
     Seg(OP_watermark, <<Keyed(K_text, B64_bad)>>),
     Seg(OP_watermark, <<TOK_text, Keyed(K_t, <<"1", "0", "1">>)>>),
     Seg(OP_crop, <<Keyed(K_w, <<"1">>), Keyed(K_h, <<"1">>)>>),
     Seg(OP_quality, <<Keyed(K_q, <<"8", "0">>)>>),
     Seg(OP_auto_orient, <<Bare(<<"1">>)>>),
     Seg(OP_blur, <<Keyed(K_radius, <<"0">>)>>),
     Seg(OP_blindwatermark, <<Keyed(K_content, B64_Hi)>>),
     Seg(OP_deblindwatermark, <<>>),
     SEG_resize_double, SEG_resize_double_limit}
SEG_convert_mp3 == Seg(OP_convert, <<Keyed(K_f, <<"m", "p", "3">>)>>)
AudioMenu ==
    {SEG_convert_mp3,
     Seg(OP_convert, <<Keyed(K_f, <<"f", "l", "a", "c">>), Keyed(K_ar, <<"4", "4", "1", "0", "0">>)>>),
     Seg(OP_convert, <<Keyed(K_f, <<"m", "p", "3">>), Keyed(K_ar, <<"9", "6", "0", "0", "0">>)>>),
     Seg(OP_convert, <<Keyed(K_f, <<"m", "p", "3">>), Keyed(K_ar, <<"x">>)>>),
     Seg(OP_convert, <<Keyed(K_f, <<"x", "y", "z">>)>>),
     Seg(OP_convert, <<>>),
     Seg(OP_foo, <<>>),
     Seg(OP_foo, <<Keyed(K_f, <<"a", "_", "b">>)>>),
     Seg(OP_foo, <<Keyed(K_ar, <<"x">>)>>)}
Menu(p) == (IF p = "image" THEN ImageMenu ELSE AudioMenu) \cup {Empty}
ItemSeqs(p) == UNION {[1..n -> Menu(p)] : n \in 0..MaxSegs}
Operations(its) == Join([i \in 1..Len(its) |-> SegStr(its[i])], "/")

Init ==
    /\ pipeline \in {"image", "audio"}
    /\ input_format \in (IF pipeline = "image" THEN {"jpg"} ELSE {"wav", "mp3"})
    /\ items \in ItemSeqs(pipeline)
    /\ operations = Operations(items)
    /\ operation_chain = <<>>
    /\ pc = "start"
    /\ buffer = [kind |-> "none", size |-> <<0, 0>>, trace |-> <<>>]
    /\ log = <<>>
    /\ result = NotRun
    /\ task_type = PyNone
    /\ task_status = "none"
    /\ uploaded = {}
    /\ reply = NotRun
    /\ IdleParse
    /\ IdleResize
    /\ IdleUnits

\* lines 121-134 (audio: lines 73-89): download, the input format check of the
\* audio pipeline, and the split of the operations string
Begin ==
    /\ pc = "start"
    /\ buffer' = SourceOf(pipeline)
    /\ IF pipeline = "audio" /\ input_format # "wav"
       THEN /\ pc' = "done"
            /\ result' = ErrorResult("ProcessingError", 500, "Unsupported input format")
            /\ operation_chain' = <<>>
       ELSE /\ pc' = "loop"
            /\ result' = result
            /\ operation_chain' = IF operations = <<>> THEN <<>> ELSE SplitChain(operations)
    /\ UNCHANGED <<pipeline, input_format, items, operations, log, task_type,
                   task_status, uploaded, reply, varsParse, varsResize, varsUnits>>

\* lines 121-126 (audio: lines 73-78): S3Config, get_s3_client or
\* download_object_from_s3 raises; the except block then runs with task_type
\* still unbound (lines 399-409; audio: lines 123-125)
DownloadFails ==
    /\ pc = "start"
    /\ pc' = "done"
    /\ result' = IF pipeline = "image"
                 THEN ImageRaised(StepRaise(0, "download", buffer, {}), task_type)
                 ELSE AudioRaised(StepRaise(0, "download", buffer, {}))
    /\ UNCHANGED <<buffer, operation_chain>>
    /\ UNCHANGED <<pipeline, input_format, items, operations, log, task_type,
                   task_status, uploaded, reply, varsParse, varsResize, varsUnits>>

\* lines 136-374 and, when the turn raises, lines 399-409
ImageStep ==
    /\ pipeline = "image" /\ pc = "loop" /\ Len(log) < Len(operation_chain)
    /\ \E ext \in ExtOutcomes :
       \E p \in {parse_operation(operation_chain[Len(log) + 1])} :
       \E r \in {IF p.kind = "ok" THEN ImageOperation(p.operation, p.params, buffer, ext)
                 ELSE StepRaise(0, "ValueError", buffer, {})} :
       \E tt \in {IF p.kind = "ok" THEN PyStr(p.operation) ELSE task_type} :
            /\ log' = Append(log, Turn(operation_chain[Len(log) + 1], p, ext, r, buffer))
            /\ task_type' = tt
            /\ buffer' = IF r.ok THEN r.buf ELSE buffer
            /\ uploaded' = IF "upload" \in r.effects THEN uploaded \cup {r.buf} ELSE uploaded
            /\ IF LoopContinues(r)
               THEN /\ pc' = "loop"
                    /\ result' = result
                    /\ task_status' = AfterEffects(task_status, r.effects)
               ELSE /\ pc' = "done"
                    /\ result' = ImageRaised(r, tt)
                    /\ task_status' = IF tt = PyNone THEN task_status ELSE "failed"
    /\ UNCHANGED <<pipeline, input_format, items, operations, operation_chain, reply,
                   varsParse, varsResize, varsUnits>>

\* lines 375-397
ImageReturn ==
    /\ pipeline = "image" /\ pc = "loop" /\ Len(log) = Len(operation_chain)
    /\ pc' = "done"
    /\ result' = Response(buffer)
    /\ UNCHANGED <<pipeline, input_format, items, operations, operation_chain, buffer,
                   log, task_type, task_status, uploaded, reply, varsParse, varsResize, varsUnits>>

\* audio_processor.py lines 91-100 and, when the turn raises, lines 120-125
AudioStep ==
    /\ pipeline = "audio" /\ pc = "loop" /\ Len(log) < Len(operation_chain)
    /\ \E ext \in ExtOutcomes :
       \E p \in {audio_parse_operation(operation_chain[Len(log) + 1])} :
       \E r \in {IF p.kind = "ok" THEN AudioOperation(p.operation, p.params, buffer, ext)
                 ELSE StepRaise(IF p.exc = "ValueError" THEN 0 ELSE 400, p.exc, buffer, {})} :
            /\ log' = Append(log, Turn(operation_chain[Len(log) + 1], p, ext, r, buffer))
            /\ buffer' = IF r.ok THEN r.buf ELSE buffer
            /\ IF LoopContinues(r)
               THEN pc' = "loop" /\ result' = result
               ELSE pc' = "done" /\ result' = AudioRaised(r)
    /\ UNCHANGED <<pipeline, input_format, items, operations, operation_chain,
                   task_type, task_status, uploaded, reply, varsParse, varsResize, varsUnits>>

\* audio_processor.py lines 102-118
AudioReturn ==
    /\ pipeline = "audio" /\ pc = "loop" /\ Len(log) = Len(operation_chain)
    /\ pc' = "done"
    /\ result' = Response(buffer)
    /\ UNCHANGED <<pipeline, input_format, items, operations, operation_chain, buffer,
                   log, task_type, task_status, uploaded, reply, varsParse, varsResize, varsUnits>>

\* image-processor/handler.py lines 46-94: the synchronous request; every
\* exception out of process_image is answered with statusCode 500
handler(res) == IF res.kind = "response" THEN 200 ELSE 500
\* audio-processor/handler.py lines 63-110: a ProcessingError is answered
\* with its own status code, any other exception with 500
lambda_handler(res) ==
    IF res.kind = "response" THEN 200
    ELSE IF res.exc = "ProcessingError" THEN res.status
    ELSE 500
Replied(code) == [kind |-> "reply", statusCode |-> code]

ImageReply ==
    /\ pipeline = "image" /\ pc = "done" /\ reply = NotRun
    /\ reply' = Replied(handler(result))
    /\ UNCHANGED <<pipeline, input_format, items, operations, operation_chain, pc, buffer,
                   log, result, task_type, task_status, uploaded, varsParse, varsResize, varsUnits>>

AudioReply ==
    /\ pipeline = "audio" /\ pc = "done" /\ reply = NotRun
    /\ reply' = Replied(lambda_handler(result))
    /\ UNCHANGED <<pipeline, input_format, items, operations, operation_chain, pc, buffer,
                   log, result, task_type, task_status, uploaded, varsParse, varsResize, varsUnits>>

Next == Begin \/ DownloadFails \/ ImageStep \/ ImageReturn \/ AudioStep \/ AudioReturn
        \/ ImageReply \/ AudioReply
Spec == Init /\ [][Next]_vars

-----------------------------------------------------------------------------
(* Claims about process_image and process_audio, under Spec *)

\* the segments of the operations string that are not empty, as composed
Segments == SelectSeq(items, LAMBDA it : it # Empty)
\* the source was downloaded: the buffer holds it or what was made of it
Downloaded == buffer # NoBody
Ran == pc # "start" /\ Downloaded

\* C1: in process_image a failing operation (parse, validation or transform)
\* is the last one parsed or executed, and the call ends in an error that
\* carries no image body; the buffer handed to the failing operation is not
\* returned.
C1_FailureAbortsChain ==
    pipeline = "image" =>
        \A i \in 1..Len(log) :
            log[i].raised =>
                /\ i = Len(log)
                /\ pc = "done"
                /\ result # NotRun /\ result.kind = "error" /\ result.body = NoBody

C1_Witness ==
    /\ pipeline = "image" /\ pc = "done"
    /\ Len(Segments) = 3 /\ Len(log) = 2
    /\ ~log[1].raised /\ log[1].bufOut.trace # <<>>
    /\ log[2].raised
    /\ result.kind = "error" /\ result.body = NoBody

\* C2: both pipelines take the segments between '/' in order, skip the empty
\* ones, and run each remaining segment once: turn i of the loop parses the
\* i-th non-empty segment and works on the buffer the turn before it left,
\* and a response is returned only after every segment has had its turn.
C2_InOrderOncePerSegment ==
    Ran =>
        /\ Len(log) <= Len(Segments)
        /\ \A i \in 1..Len(log) :
              /\ log[i].seg = SegStr(Segments[i])
              /\ log[i].bufIn = IF i = 1 THEN SourceOf(pipeline) ELSE log[i - 1].bufOut
              /\ log[i].parsed.kind = "ok" => log[i].parsed.operation = Segments[i].op
        /\ buffer = IF Len(log) = 0 THEN SourceOf(pipeline) ELSE log[Len(log)].bufOut
        /\ (result # NotRun /\ result.kind = "response") =>
              /\ Len(log) = Len(Segments)
              /\ result.body = buffer

C2_Witness ==
    /\ pipeline = "image" /\ pc = "done" /\ result.kind = "response"
    /\ items = <<SEG_grayscale, Empty, SEG_grayscale>>
    /\ Len(log) = 2
    /\ result.body.trace = <<Label("grayscale", PyNone), Label("grayscale", PyNone)>>

KnownOps(p) == IF p = "image" THEN ImageOps ELSE {OP_convert}
\* the turn raised before any transform ran
NothingDone(turn) == turn.raised /\ turn.bufOut = turn.bufIn /\ turn.effects = {}

\* C3 as stated: in both pipelines a segment whose name is not recognised
\* fails with 'Unknown operation' and no transform runs for it.
C3_UnknownNameIsUnknownOperation ==
    \A i \in 1..Len(log) :
        Segments[i].op \notin KnownOps(pipeline) =>
            NothingDone(log[i]) /\ log[i].detail = "Unknown operation"

\* a token the audio parser accepts: no '_', or exactly one with, for the
\* numeric keys, a decimal value
AudioTokenParses(t) ==
    t.keyed => /\ ~Contains(t.r, "_")
               /\ t.k \in AudioNumericKeys => IsDecimal(t.r)
AudioSegmentParses(seg) == \A j \in 1..Len(seg.toks) : AudioTokenParses(seg.toks[j])

\* C3 amended: a segment whose name is not recognised always fails without a
\* transform.  In the image pipeline the error is 'Unknown operation'; in the
\* audio pipeline the parameters are parsed first, so the error is 'Unknown
\* operation' only when every token parses, and otherwise the parser's
\* ValueError or 'Invalid numeric value'.
C3_UnknownNameFails ==
    \A i \in 1..Len(log) :
        Segments[i].op \notin KnownOps(pipeline) =>
            /\ NothingDone(log[i])
            /\ IF pipeline = "image" \/ AudioSegmentParses(Segments[i])
               THEN log[i].detail = "Unknown operation" /\ log[i].status = 400
               ELSE log[i].detail \in {"ValueError", "Invalid numeric value"}

C3_Witness ==
    /\ pipeline = "audio" /\ pc = "done"
    /\ items = <<SEG_convert_mp3, Seg(OP_foo, <<>>)>>
    /\ Len(log) = 2 /\ ~log[1].raised
    /\ log[2].detail = "Unknown operation"
    /\ result.kind = "error"

\* the example of C4 and what the parser is to make of it
ExampleChain == <<SEG_resize_half, SEG_format_png>>
ExampleParsed ==
    /\ Len(log) >= 1 => log[1].parsed =
          [kind |-> "ok", operation |-> OP_resize, params |-> (K_p :> PyInt(50))]
    /\ Len(log) >= 2 => log[2].parsed =
          [kind |-> "ok", operation |-> OP_format, params |-> (K_f :> PyStr(<<"p", "n", "g">>))]
    /\ (pc = "done" /\ Downloaded) => Len(log) = 2

KeysOf(seg) == {seg.toks[j].k : j \in {n \in 1..Len(seg.toks) : seg.toks[n].keyed}}
\* a bare token after format is filed under f and under nothing else
BareRule(seg, p) ==
    (seg.op = OP_format /\ p.kind = "ok") =>
        \A j \in 1..Len(seg.toks) :
            (~seg.toks[j].keyed /\ \A n \in (j + 1)..Len(seg.toks) :
                                       seg.toks[n].keyed /\ seg.toks[n].k # K_f) =>
                /\ Has(p.params, K_f)
                /\ p.params[K_f] = PyStr(seg.toks[j].r)
                /\ DOMAIN p.params \subseteq KeysOf(seg) \cup {K_f}
\* a decimal value of a key that is not textual is stored as an integer
DecimalRule(seg, p) ==
    \A j \in 1..Len(seg.toks) :
        (/\ seg.toks[j].keyed /\ seg.toks[j].k \notin TextKeys /\ IsDecimal(seg.toks[j].r)
         /\ \A n \in (j + 1)..Len(seg.toks) : seg.toks[n].k # seg.toks[j].k) =>
            /\ p.kind = "ok"
            /\ Has(p.params, seg.toks[j].k)
            /\ p.params[seg.toks[j].k] = PyInt(DigitsValue(seg.toks[j].r, 0))

IsWatermark(seg) == seg.op = OP_watermark
GivesText(seg) == \E j \in 1..Len(seg.toks) : seg.toks[j].k = K_text
GivesImage(seg) == \E j \in 1..Len(seg.toks) : seg.toks[j].k = K_image

\* C9 as stated: a watermark with neither or with both of text and image
\* fails, and nothing is applied or uploaded.
C9_ExactlyOneOfTextAndImage ==
    \A i \in 1..Len(log) :
        (IsWatermark(Segments[i]) /\ GivesText(Segments[i]) = GivesImage(Segments[i])) =>
            /\ log[i].raised
            /\ log[i].bufOut = log[i].bufIn
            /\ "upload" \notin log[i].effects

\* a watermark whose only tokens are a decodable text and an image
PlainWatermark(seg) ==
    IsWatermark(seg) /\ \A j \in 1..Len(seg.toks) : seg.toks[j] \in {TOK_text, TOK_image}
ExpectedMark(seg) ==
    IF GivesText(seg) THEN Label("watermark text", PyStr(<<"H", "i">>))
    ELSE IF GivesImage(seg) THEN Label("watermark image", PyStr(B64_logo))
    ELSE Label("watermark text", PyStr(<<"W", "a", "t", "e", "r", "m", "a", "r", "k">>))

\* C9 amended: giving both or neither is no validation failure.  On an image
\* buffer such a watermark fails only if font, S3 or imaging fail; otherwise
\* exactly one mark is applied and uploaded: the decoded text when text is
\* given (an image given with it is ignored), the image when only image is
\* given, and the text 'Watermark' when neither is given.
C9_TextElseImageElseDefault ==
    \A i \in 1..Len(log) :
        (PlainWatermark(Segments[i]) /\ log[i].bufIn.kind = "image") =>
            /\ log[i].raised = (log[i].ext = "raise")
            /\ ~log[i].raised =>
                  /\ log[i].bufOut.trace = Append(log[i].bufIn.trace, ExpectedMark(Segments[i]))
                  /\ "upload" \in log[i].effects
                  /\ log[i].bufOut \in uploaded

C9_Witness ==
    /\ pipeline = "image" /\ pc = "done" /\ result.kind = "response"
    /\ items = <<SEG_watermark, Seg(OP_watermark, <<TOK_text, TOK_image>>)>>
    /\ result.body.trace = <<Label("watermark text", PyStr(<<"W", "a", "t", "e", "r", "m", "a", "r", "k">>)),
                             Label("watermark text", PyStr(<<"H", "i">>))>>
    /\ Cardinality(uploaded) = 2
    /\ task_status = "completed"

-----------------------------------------------------------------------------
(* The limit flag of a resize reached through the operation chain *)

Without(params, key) == [k \in (DOMAIN params) \ {key} |-> params[k]]
GivesLimitOne(seg) == seg.op = OP_resize /\ \E j \in 1..Len(seg.toks) : seg.toks[j] = TOK_limit
\* the turn ended as the resize r would have ended
EndsLike(turn, r) ==
    /\ turn.raised = ~r.ok
    /\ turn.bufOut = IF r.ok THEN r.buf ELSE turn.bufIn

\* C11: a resize segment of the chain that carries limit_1 ends exactly as
\* the same resize without the limit token: whenever the computed size is
\* larger than the source in a dimension, the buffer is returned unchanged.
C11_ExplicitLimitLikeDefault ==
    pipeline = "image" =>
        \A i \in 1..Len(log) :
            (GivesLimitOne(Segments[i]) /\ log[i].parsed.kind = "ok") =>
                EndsLike(log[i], DoResize(Without(log[i].parsed.params, K_limit), log[i].bufIn))

\* the flag that reaches resize_image is the integer 1, which is not the
\* string '1': the limit is off and the image is enlarged
C11_LimitOneEnlarges ==
    /\ pipeline = "image" /\ Len(log) >= 1
    /\ Segments[1] = SEG_resize_double_limit
    /\ log[1].parsed.params[K_limit] = PyInt(1)
    /\ log[1].bufIn.size = SourceSize
    /\ log[1].bufOut.size = <<2 * SourceSize[1], 2 * SourceSize[2]>>

-----------------------------------------------------------------------------
(* Claims about the width/height modes and the percentage mode, under       *)
(* SpecResize                                                               *)

\* the call took the width/height branch with mode m and integers w and h
\* in 1..16384
SizedCall(m) ==
    /\ resized # NotRun
    /\ {K_p, K_l, K_s} \cap DOMAIN resize_params = {}
    /\ Has(resize_params, K_w) /\ Has(resize_params, K_h)
    /\ IsInt(resize_params[K_w]) /\ InRange(resize_params[K_w][2])
    /\ IsInt(resize_params[K_h]) /\ InRange(resize_params[K_h][2])
    /\ Get(resize_params, K_m, LFIT) = m
AskedSize == <<resize_params[K_w][2], resize_params[K_h][2]>>

\* C12: a fill-mode resize with w and h in 1..16384 returns an image of
\* exactly w x h pixels, for every source size.
C12_FillExactSize ==
    SizedCall(FILL) => resized.kind = "ok" /\ resized.out = AskedSize

\* a 49x49 source filled to 1x1: the scaled size is int(49 * (1 / 49)) = 0
C12_FillFailsOnZeroTarget ==
    /\ SizedCall(FILL) /\ src_size = <<49, 49>> /\ AskedSize = <<1, 1>>
    /\ resized.kind = "error" /\ resized.target = <<0, 0>>

\* the lfit-scaled size of the source for the asked w x h
LfitScaled ==
    LET r == FitRatio(src_size, resize_params[K_w], resize_params[K_h], TRUE) IN
    <<ScaleDim(src_size[1], r[2], r[3]), ScaleDim(src_size[2], r[2], r[3])>>

\* C13: a pad-mode resize with w and h in 1..16384 returns a canvas of
\* exactly w x h pixels, the lfit-scaled content pasted at
\* ((w - scaledW) div 2, (h - scaledH) div 2), for every source size.
C13_PadExactCanvas ==
    SizedCall(PAD) =>
        /\ resized.kind = "ok"
        /\ resized.out = AskedSize
        /\ resized.at = <<(AskedSize[1] - LfitScaled[1]) \div 2,
                          (AskedSize[2] - LfitScaled[2]) \div 2>>

\* a 2x1 source padded to 1x1: the lfit-scaled size is 1x0
C13_PadFailsOnZeroTarget ==
    /\ SizedCall(PAD) /\ src_size = <<2, 1>> /\ AskedSize = <<1, 1>>
    /\ ~Has(resize_params, K_color)
    /\ resized.kind = "error" /\ resized.target = <<1, 0>>

\* the call took the percentage branch with an integer p in 1..1000
PercentCall ==
    /\ resized # NotRun
    /\ Has(resize_params, K_p)
    /\ IsInt(resize_params[K_p])
    /\ MinPercent <= resize_params[K_p][2] /\ resize_params[K_p][2] <= MaxPercent
Floor(a, b) == a \div b

\* C14: a percentage resize with p in 1..1000 that the limit rule does not
\* skip computes the new width floor(width * p / 100) and the new height
\* floor(height * p / 100), each from its own axis, and the image returned
\* has that size (a size with a zero side is refused by the imaging library).
C14_PercentFloorPerAxis ==
    (PercentCall /\ resized.kind # "skip") =>
        /\ resized.target = <<Floor(src_size[1] * resize_params[K_p][2], 100),
                              Floor(src_size[2] * resize_params[K_p][2], 100)>>
        /\ resized.kind = "ok" => resized.out = resized.target
        /\ resized.kind = "error" <=> (resized.target[1] < 1 \/ resized.target[2] < 1)

\* a 2x1 source at 150 per cent with the limit off becomes 3x1
C14_Witness ==
    /\ PercentCall /\ resize_params[K_p] = PyInt(150) /\ src_size = <<2, 1>>
    /\ resized.kind = "ok" /\ resized.out = <<3, 1>>

\* C15: with w and h both given, every lfit result that is not skipped is
\* at most w wide and h high, and every mfit result that is not skipped is
\* at least w wide and h high.
C15_FitWithinAndCover ==
    /\ (SizedCall(LFIT) /\ resized.kind = "ok") =>
            resized.out[1] <= AskedSize[1] /\ resized.out[2] <= AskedSize[2]
    /\ (SizedCall(MFIT) /\ resized.kind = "ok") =>
            resized.out[1] >= AskedSize[1] /\ resized.out[2] >= AskedSize[2]

\* a 47x47 source under mfit 3x3: int(47 * (3 / 47)) = 2
C15_MfitFallsShort ==
    /\ SizedCall(MFIT) /\ src_size = <<47, 47>> /\ AskedSize = <<3, 3>>
    /\ resized.kind = "ok" /\ resized.out = <<2, 2>>

-----------------------------------------------------------------------------
(* image-processor/image_watermark.py: where a watermark element is pasted  *)
(*                                                                          *)
(* A text watermark is placed by the code at the end of                     *)
(* _apply_text_watermark, an image watermark by _calculate_position.  The   *)
(* copy of the module under .aws-sam/build has its own _calculate_position. *)

TopRow == {"nw", "north", "ne"}
MiddleRow == {"west", "center", "east"}
LeftColumn == {"nw", "west", "sw"}
CenterColumn == {"north", "center", "south"}
Gravities == {"nw", "north", "ne", "west", "center", "east", "sw", "south", "se"}

\* lines 268-286 of _apply_text_watermark; total is <<total_width, total_height>>
TextPosition(canvas, total, params) ==
    LET width == canvas[1]
        height == canvas[2]
        y == IF params.g \in TopRow THEN params.y
             ELSE IF params.g \in MiddleRow
             THEN (height - total[2]) \div 2 + params.voffset
             ELSE height - total[2] - params.y
        x == IF params.g \in LeftColumn THEN params.x
             ELSE IF params.g \in CenterColumn THEN (width - total[1]) \div 2
             ELSE width - total[1] - params.x IN
    <<Max(0, Min(x, width - total[1])), Max(0, Min(y, height - total[2]))>>

\* lines 363-375: the positions table, and the voffset of lines 377-378
BasePosition(canvas, element, params) ==
    LET width == canvas[1]
        height == canvas[2]
        elem_width == element[1]
        elem_height == element[2]
        x == IF params.g \in LeftColumn THEN params.x
             ELSE IF params.g \in CenterColumn THEN (width - elem_width) \div 2
             ELSE width - elem_width - params.x
        y == IF params.g \in TopRow THEN params.y
             ELSE IF params.g \in MiddleRow THEN (height - elem_height) \div 2
             ELSE height - elem_height - params.y IN
    <<x, IF params.g \in MiddleRow THEN y + params.voffset ELSE y>>

\* line 381
PositionMargin == 5
\* _calculate_position (lines 355-385)
CalculatePosition(canvas, element, params) ==
    LET b == BasePosition(canvas, element, params)
        y == Max(PositionMargin, Min(b[2], canvas[2] - element[2] - PositionMargin))
        x == Max(PositionMargin, Min(b[1], canvas[1] - element[1] - PositionMargin)) IN
    <<x, y>>
\* _calculate_position of .aws-sam/build/ImageProcessorFunction/image_watermark.py
\* (lines 272-296): no clamp
BuildCalculatePosition(canvas, element, params) == BasePosition(canvas, element, params)

\* txt.rotate(params.rotate, expand=True) for a quarter turn
Rotated(size, rotate) == IF rotate = 90 THEN <<size[2], size[1]>> ELSE size

\* ---- inputs
Canvases == {<<20, 12>>, <<1000, 1000>>}
Elements == {<<4, 2>>, <<18, 9>>, <<20, 12>>, <<100, 50>>}
MarginsX == {0, 3, 10, 4096}
MarginsY == {0, 10}
VOffsets == {-1000, 0, 3}
Rotations == {0, 90}
Placers == {"text", "image", "build"}

InitPosition ==
    /\ \E placer \in Placers, canvas \in Canvases, element \in Elements, g \in Gravities,
          x \in MarginsX, y \in MarginsY, voffset \in VOffsets, rotate \in Rotations :
          /\ placer # "text" => rotate = 0
          /\ place_in = [placer |-> placer, canvas |-> canvas, element |-> element,
                         g |-> g, x |-> x, y |-> y, voffset |-> voffset, rotate |-> rotate]
    /\ placed = NotRun
    /\ IdleParse
    /\ IdleResize
    /\ IdleChain
    /\ IdleConvert
    /\ IdlePages
    /\ IdleMore

Pasted(pos, size) == [kind |-> "pasted", pos |-> pos, size |-> size]

\* watermark.paste(txt, (x, y), txt) (line 289)
PlaceText ==
    /\ placed = NotRun /\ place_in # <<>> /\ place_in.placer = "text"
    /\ placed' = Pasted(TextPosition(place_in.canvas, place_in.element, place_in),
                        Rotated(place_in.element, place_in.rotate))
    /\ UNCHANGED <<place_in, varsParse, varsResize, varsChain, varsConvert, varsPages, varsMore>>
\* watermark.paste(wm_image, pos, wm_image) (line 322)
PlaceImage ==
    /\ placed = NotRun /\ place_in # <<>> /\ place_in.placer = "image"
    /\ placed' = Pasted(CalculatePosition(place_in.canvas, place_in.element, place_in),
                        place_in.element)
    /\ UNCHANGED <<place_in, varsParse, varsResize, varsChain, varsConvert, varsPages, varsMore>>
\* the same in the copy under .aws-sam/build (line 244)
PlaceImageBuild ==
    /\ placed = NotRun /\ place_in # <<>> /\ place_in.placer = "build"
    /\ placed' = Pasted(BuildCalculatePosition(place_in.canvas, place_in.element, place_in),
                        place_in.element)
    /\ UNCHANGED <<place_in, varsParse, varsResize, varsChain, varsConvert, varsPages, varsMore>>

NextPosition == PlaceText \/ PlaceImage \/ PlaceImageBuild
SpecPosition == InitPosition /\ [][NextPosition]_vars

-----------------------------------------------------------------------------
(* Claims about the paste position, under SpecPosition *)

\* the element that was pasted fits in the canvas
Fits ==
    /\ placed # NotRun
    /\ placed.size[1] <= place_in.canvas[1]
    /\ placed.size[2] <= place_in.canvas[2]
Clamp(v, lo, hi) == Max(lo, Min(v, hi))
\* the anchor formula: W x H the canvas, w x h the element
AnchorX(g, W, w, x) ==
    IF g \in {"nw", "west", "sw"} THEN x
    ELSE IF g \in {"north", "center", "south"} THEN (W - w) \div 2
    ELSE W - w - x
AnchorY(g, H, h, y, voffset) ==
    IF g \in {"nw", "north", "ne"} THEN y
    ELSE IF g \in {"west", "center", "east"} THEN (H - h) \div 2 + voffset
    ELSE H - h - y

\* C16: for each of the nine anchors the paste position is the anchor
\* formula clamped into [0, W-w] x [0, H-h], voffset entering only for west,
\* center and east.
C16_AnchorFormulaClamped ==
    Fits =>
        LET W == place_in.canvas[1]
            H == place_in.canvas[2]
            w == placed.size[1]
            h == placed.size[2] IN
        placed.pos = <<Clamp(AnchorX(place_in.g, W, w, place_in.x), 0, W - w),
                       Clamp(AnchorY(place_in.g, H, h, place_in.y, place_in.voffset), 0, H - h)>>

\* an image watermark anchored nw with margins (0, 0) is pasted at (5, 5)
C16_ImageOffTheAnchor ==
    /\ Fits /\ place_in.placer = "image" /\ place_in.g = "nw"
    /\ place_in.x = 0 /\ place_in.y = 0
    /\ place_in.canvas = <<1000, 1000>> /\ place_in.element = <<100, 50>>
    /\ placed.pos = <<5, 5>>

\* the example of the claim: se, margins (10, 10), 1000x1000, 100x50
C16_ExampleHolds ==
    (/\ placed # NotRun /\ place_in.g = "se" /\ place_in.x = 10 /\ place_in.y = 10
     /\ place_in.canvas = <<1000, 1000>> /\ place_in.element = <<100, 50>>
     /\ place_in.rotate = 0)
        => placed.pos = <<890, 940>>

\* C17: an element that fits in the canvas is pasted at a position with
\* 0 <= x <= W-w and 0 <= y <= H-h, for every gravity, margin and voffset.
C17_PositionInsideCanvas ==
    Fits =>
        /\ 0 <= placed.pos[1] /\ placed.pos[1] <= place_in.canvas[1] - placed.size[1]
        /\ 0 <= placed.pos[2] /\ placed.pos[2] <= place_in.canvas[2] - placed.size[2]

\* an image watermark as large as the canvas is pasted at (5, 5)
C17_ImagePastedOutside ==
    /\ Fits /\ place_in.placer = "image"
    /\ place_in.canvas = <<20, 12>> /\ place_in.element = <<20, 12>>
    /\ placed.pos = <<5, 5>>

-----------------------------------------------------------------------------
(* audio-processor/audio_converter.py: convert_audio called on its own *)

F_mp3 == <<"m", "p", "3">>
F_m4a == <<"m", "4", "a">>
F_flac == <<"f", "l", "a", "c">>
F_oga == <<"o", "g", "a">>
F_ac3 == <<"a", "c", "3">>
F_opus == <<"o", "p", "u", "s">>
F_amr == <<"a", "m", "r">>
FormatOpts == AudioFormats \cup {<<"M", "P", "3">>, <<"w", "a", "v">>}
RateOpts == {Absent} \cup {PyInt(n) : n \in ValidRates \cup {0, 44000, 192000}}
QualityOpts == {Absent, PyInt(-1), PyInt(0), PyInt(100), PyInt(101)}
BitrateOpts == {Absent, PyInt(999), PyInt(1000), PyInt(10000000), PyInt(10000001)}
ChannelOpts == {Absent, PyInt(1), PyInt(3)}
ConvertKeys == <<K_f, K_ar, K_ac, K_aq, K_ab>>
MkConvertParams(vals) ==
    LET present == {i \in 1..Len(ConvertKeys) : vals[i] # Absent} IN
    [k \in {ConvertKeys[i] : i \in present} |->
        vals[CHOOSE i \in present : ConvertKeys[i] = k]]

InitConvert ==
    /\ \E f \in FormatOpts, ar \in RateOpts, ac \in ChannelOpts,
          aq \in QualityOpts, ab \in BitrateOpts :
          convert_params = MkConvertParams(<<PyStr(f), ar, ac, aq, ab>>)
    /\ ffmpeg_result \in {"raise", "same"}
    /\ converted = NotRun
    /\ IdleParse
    /\ IdleResize
    /\ IdleChain
    /\ IdlePlace
    /\ IdlePages
    /\ IdleMore

\* how the call ended, and whether the ffmpeg process was started (line 169)
Converted(r, started) == [kind |-> "converted", ok |-> r.ok, detail |-> r.detail,
                          out |-> r.buf, started |-> started]

\* lines 113-115 and 189-191: validate_params raises
ConvertRejected ==
    /\ converted = NotRun /\ convert_params # EmptyDict
    /\ validate_params(convert_params) # ""
    /\ converted' = Converted(convert_audio(SourceOf("audio"), convert_params, ffmpeg_result),
                              FALSE)
    /\ UNCHANGED <<convert_params, ffmpeg_result, varsParse, varsResize, varsChain, varsPlace, varsPages, varsMore>>
\* lines 113-191: the parameters pass and ffmpeg runs
ConvertRun ==
    /\ converted = NotRun /\ convert_params # EmptyDict
    /\ validate_params(convert_params) = ""
    /\ converted' = Converted(convert_audio(SourceOf("audio"), convert_params, ffmpeg_result),
                              TRUE)
    /\ UNCHANGED <<convert_params, ffmpeg_result, varsParse, varsResize, varsChain, varsPlace, varsPages, varsMore>>

NextConvert == ConvertRejected \/ ConvertRun
SpecConvert == InitConvert /\ [][NextConvert]_vars

-----------------------------------------------------------------------------
(* Claims about the audio parameters, under SpecConvert *)

GivenFormat == Lower(convert_params[K_f][2])
\* the rule of the claim for a format and a rate
RateAllowed(format, ar) ==
    /\ ar \in {8000, 11025, 12000, 16000, 22050, 24000, 32000, 44100, 48000,
                64000, 88200, 96000}
    /\ format = F_mp3 => ar <= 48000
    /\ format = F_opus => ar \in {8000, 12000, 16000, 24000, 48000}
    /\ format = F_ac3 => ar \in {32000, 44100, 48000}
    /\ format = F_amr => ar = 8000
RateMessages ==
    {"Invalid sample rate", "MP3 only supports sample rates up to 48kHz",
     "Opus only supports 8kHz, 12kHz, 16kHz, 24kHz, and 48kHz",
     "AC3 only supports 32kHz, 44.1kHz, and 48kHz", "AMR-NB only supports 8kHz sample rate"}
RateCall ==
    /\ converted # NotRun
    /\ GivenFormat \in AudioFormats
    /\ Has(convert_params, K_ar)

QualityCall ==
    /\ converted # NotRun
    /\ GivenFormat \in AudioFormats
    /\ ~Has(convert_params, K_ar) /\ ~Has(convert_params, K_ac)

\* C19: a convert with both aq and ab is rejected whatever their values; with
\* aq alone it is accepted exactly when 0 <= aq <= 100, with ab alone exactly
\* when 1000 <= ab <= 10000000.
C19_QualityOrBitrate ==
    /\ (converted # NotRun /\ Has(convert_params, K_aq) /\ Has(convert_params, K_ab)) =>
            ~converted.ok /\ ~converted.started
    /\ (QualityCall /\ Has(convert_params, K_aq) /\ ~Has(convert_params, K_ab)) =>
            (converted.started <=>
                (0 <= convert_params[K_aq][2] /\ convert_params[K_aq][2] <= 100))
    /\ (QualityCall /\ Has(convert_params, K_ab) /\ ~Has(convert_params, K_aq)) =>
            (converted.started <=>
                (1000 <= convert_params[K_ab][2] /\ convert_params[K_ab][2] <= 10000000))

\* aq 100 and ab 1000 are each in range, and are rejected together
C19_Witness ==
    /\ QualityCall
    /\ Has(convert_params, K_aq) /\ convert_params[K_aq] = PyInt(100)
    /\ Has(convert_params, K_ab) /\ convert_params[K_ab] = PyInt(1000)
    /\ ~converted.ok /\ ~converted.started
    /\ converted.detail = "Cannot specify both quality (aq) and bitrate (ab)"

-----------------------------------------------------------------------------
(* base64 and UTF-8 as b64encoder_decoder.py uses them. A byte is a number  *)
(* in 0..255. A decoded character outside ASCII is kept as the one opaque   *)
(* character NonAscii, a control character as Control, and the ASCII        *)
(* whitespace \t \n \v \f \r as the blank, which int() strips alike. The     *)
(* grave accent is written "grave".                                         *)

Printable == <<
    " ", "!", "\"", "#", "$", "%", "&", "'", "(", ")",
    "*", "+", ",", "-", ".", "/", "0", "1", "2", "3",
    "4", "5", "6", "7", "8", "9", ":", ";", "<", "=",
    ">", "?", "@", "A", "B", "C", "D", "E", "F", "G",
    "H", "I", "J", "K", "L", "M", "N", "O", "P", "Q",
    "R", "S", "T", "U", "V", "W", "X", "Y", "Z", "[",
    "\\", "]", "^", "_", "grave", "a", "b", "c", "d", "e",
    "f", "g", "h", "i", "j", "k", "l", "m", "n", "o",
    "p", "q", "r", "s", "t", "u", "v", "w", "x", "y",
    "z", "{", "|", "}", "~" >>
NonAscii == "U+"
Control == "^C"
Ord(c) == (CHOOSE i \in 1..95 : Printable[i] = c) + 31
Chr(b) == IF b \in 32..126 THEN Printable[b - 31]
          ELSE IF b \in 9..13 THEN " "
          ELSE Control
IsAscii(s) == \A i \in 1..Len(s) : s[i] # NonAscii

B64Alphabet == <<
    "A", "B", "C", "D", "E", "F", "G", "H", "I", "J",
    "K", "L", "M", "N", "O", "P", "Q", "R", "S", "T",
    "U", "V", "W", "X", "Y", "Z", "a", "b", "c", "d",
    "e", "f", "g", "h", "i", "j", "k", "l", "m", "n",
    "o", "p", "q", "r", "s", "t", "u", "v", "w", "x",
    "y", "z", "0", "1", "2", "3", "4", "5", "6", "7",
    "8", "9", "+", "/" >>
IsB64(c) == \E i \in 1..64 : B64Alphabet[i] = c
B64Value(c) == (CHOOSE i \in 1..64 : B64Alphabet[i] = c) - 1

\* str.replace(a, b) for single characters
Replace(s, a, b) == [i \in 1..Len(s) |-> IF s[i] = a THEN b ELSE s[i]]
\* str.rstrip(c)
RECURSIVE RStripChar(_, _)
RStripChar(s, c) ==
    IF Len(s) > 0 /\ s[Len(s)] = c THEN RStripChar(SubSeq(s, 1, Len(s) - 1), c) ELSE s

\* base64.b64decode(s) without validation: characters outside the alphabet
\* are skipped, a '=' that completes a quad of at least two data characters
\* ends the input, and an unfinished quad is an error
RECURSIVE a2b_base64(_, _, _, _, _)
a2b_base64(s, quad_pos, leftchar, pads, bytes) ==
    IF Len(s) = 0 THEN [ok |-> quad_pos = 0, bytes |-> bytes]
    ELSE IF s[1] = "="
    THEN IF quad_pos >= 2 /\ quad_pos + pads + 1 >= 4
         THEN [ok |-> TRUE, bytes |-> bytes]
         ELSE a2b_base64(Tail(s), quad_pos, leftchar,
                         IF quad_pos >= 2 THEN pads + 1 ELSE pads, bytes)
    ELSE IF ~IsB64(s[1])
    THEN a2b_base64(Tail(s), quad_pos, leftchar, pads, bytes)
    ELSE LET v == B64Value(s[1]) IN
         IF quad_pos = 0 THEN a2b_base64(Tail(s), 1, v, 0, bytes)
         ELSE IF quad_pos = 1
         THEN a2b_base64(Tail(s), 2, v % 16, 0, Append(bytes, leftchar * 4 + (v \div 16)))
         ELSE IF quad_pos = 2
         THEN a2b_base64(Tail(s), 3, v % 4, 0, Append(bytes, leftchar * 16 + (v \div 4)))
         ELSE a2b_base64(Tail(s), 0, 0, 0, Append(bytes, leftchar * 64 + v))

\* base64.b64encode(bytes), with padding
RECURSIVE b2a_base64(_)
b2a_base64(bytes) ==
    IF Len(bytes) = 0 THEN <<>>
    ELSE IF Len(bytes) = 1
    THEN <<B64Alphabet[(bytes[1] \div 4) + 1], B64Alphabet[(bytes[1] % 4) * 16 + 1], "=", "=">>
    ELSE IF Len(bytes) = 2
    THEN <<B64Alphabet[(bytes[1] \div 4) + 1],
           B64Alphabet[(bytes[1] % 4) * 16 + (bytes[2] \div 16) + 1],
           B64Alphabet[(bytes[2] % 16) * 4 + 1], "=">>
    ELSE <<B64Alphabet[(bytes[1] \div 4) + 1],
           B64Alphabet[(bytes[1] % 4) * 16 + (bytes[2] \div 16) + 1],
           B64Alphabet[(bytes[2] % 16) * 4 + (bytes[3] \div 64) + 1],
           B64Alphabet[(bytes[3] % 64) + 1]>> \o b2a_base64(Drop(bytes, 3))

\* bytes.decode('utf-8'): the length of a sequence follows from its first
\* byte, the other bytes are continuation bytes, and overlong forms,
\* surrogates and code points above U+10FFFF are errors
Utf8Length(b) == IF b < 128 THEN 1
                 ELSE IF b \in 194..223 THEN 2
                 ELSE IF b \in 224..239 THEN 3
                 ELSE IF b \in 240..244 THEN 4
                 ELSE 0
Utf8Valid(bytes, n) ==
    /\ n > 0
    /\ Len(bytes) >= n
    /\ \A i \in 2..n : bytes[i] \in 128..191
    /\ (bytes[1] = 224 => bytes[2] >= 160)
    /\ (bytes[1] = 237 => bytes[2] <= 159)
    /\ (bytes[1] = 240 => bytes[2] >= 144)
    /\ (bytes[1] = 244 => bytes[2] <= 143)
RECURSIVE utf8_decode(_)
utf8_decode(bytes) ==
    IF Len(bytes) = 0 THEN [ok |-> TRUE, text |-> <<>>]
    ELSE LET n == Utf8Length(bytes[1]) IN
         IF ~Utf8Valid(bytes, n) THEN [ok |-> FALSE, text |-> <<>>]
         ELSE LET rest == utf8_decode(Drop(bytes, n)) IN
              [ok |-> rest.ok,
               text |-> <<IF n = 1 THEN Chr(bytes[1]) ELSE NonAscii>> \o rest.text]

\* b64encoder_decoder.py lines 4-15: the text, or an exception (ValueError
\* for a str outside ASCII, binascii.Error, UnicodeDecodeError)
custom_b64decode(encoded) ==
    LET replaced == Replace(Replace(encoded, "-", "+"), "_", "/")
        padding == 4 - (Len(replaced) % 4)
        padded == IF padding # 4 THEN replaced \o [i \in 1..padding |-> "="] ELSE replaced
        raw == a2b_base64(padded, 0, 0, 0, <<>>)
        decoded == utf8_decode(raw.bytes)
    IN IF ~IsAscii(encoded) \/ ~raw.ok \/ ~decoded.ok
       THEN [ok |-> FALSE, text |-> <<>>]
       ELSE [ok |-> TRUE, text |-> decoded.text]

\* lines 17-25, for a text of printable ASCII characters
custom_b64encode(decoded) ==
    LET encoded == b2a_base64([i \in 1..Len(decoded) |-> Ord(decoded[i])])
    IN RStripChar(Replace(Replace(encoded, "+", "-"), "/", "_"), "=")

-----------------------------------------------------------------------------
(* doc_processor.parse_operation *)

K_source == <<"s", "o", "u", "r", "c", "e">>
K_target == <<"t", "a", "r", "g", "e", "t">>
K_pages  == <<"p", "a", "g", "e", "s">>
K_bucket == <<"b", "u", "c", "k", "e", "t">>
T_b      == <<"b">>
PFX_source == <<"s", "o", "u", "r", "c", "e", "_">>
PFX_target == <<"t", "a", "r", "g", "e", "t", "_">>
PFX_pages  == <<"p", "a", "g", "e", "s", "_">>
PFX_b      == <<"b", "_">>
NoType == <<>>

\* lines 63-87: the type a part starts (NoType for a part that continues the
\* current parameter) and the text after the prefix
PartType(part) == IF StartsWith(part, PFX_source) THEN K_source
                  ELSE IF StartsWith(part, PFX_target) THEN K_target
                  ELSE IF StartsWith(part, PFX_pages) THEN K_pages
                  ELSE IF StartsWith(part, PFX_b) THEN T_b
                  ELSE NoType
PartText(part) == IF StartsWith(part, PFX_source) THEN Drop(part, 7)
                  ELSE IF StartsWith(part, PFX_target) THEN Drop(part, 7)
                  ELSE IF StartsWith(part, PFX_pages) THEN Drop(part, 6)
                  ELSE Drop(part, 2)
ParamKey(type) == IF type = T_b THEN K_bucket ELSE type

\* lines 65-76: the parameter collected so far is stored as it was written
SaveParam(params, type, current_param) ==
    IF type # NoType /\ Len(current_param) > 0
    THEN Put(params, ParamKey(type), Join(current_param, ","))
    ELSE params

\* lines 96-115: the last parameter; a pages value without ',', '-' and '_'
\* is decoded, and kept as it is when decoding fails
SaveLastParam(params, type, current_param) ==
    LET value == Join(current_param, ",") IN
    IF type = NoType \/ Len(current_param) = 0 THEN params
    ELSE IF type = K_pages
              /\ ~(Contains(value, ",") \/ Contains(value, "-") \/ Contains(value, "_"))
    THEN LET d == custom_b64decode(value) IN
         Put(params, K_pages, IF d.ok THEN d.text ELSE value)
    ELSE Put(params, ParamKey(type), value)

\* lines 61-93: the loop over rest.split(',')
RECURSIVE DocParts(_, _, _, _)
DocParts(parts, params, current_type, current_param) ==
    IF Len(parts) = 0 THEN SaveLastParam(params, current_type, current_param)
    ELSE IF PartType(parts[1]) # NoType
    THEN DocParts(Tail(parts),
                  SaveParam(params, current_type, current_param),
                  PartType(parts[1]),
                  (IF current_type # NoType /\ Len(current_param) > 0
                   THEN <<>> ELSE current_param) \o <<PartText(parts[1])>>)
    ELSE DocParts(Tail(parts), params, current_type, Append(current_param, parts[1]))

\* lines 40-117: (operation, params), or ProcessingError 400
doc_parse_operation(s) ==
    IF ~Contains(s, ",")
    THEN [kind |-> "raise", exc |-> "ProcessingError", status |-> 400,
          detail |-> "Invalid operation string format"]
    ELSE LET cut == SplitFirst(s, ",") IN
         [kind |-> "ok", operation |-> cut[1],
          params |-> DocParts(Split(cut[2], ","), EmptyDict, NoType, <<>>)]

-----------------------------------------------------------------------------
(* doc_converter.parse_pages_param *)

\* lines 88-92: the pages of one part, or ValueError
PartPages(part) ==
    IF Contains(part, "-")
    THEN LET ends == Split(part, "-") IN
         IF Len(ends) = 2 /\ IsPyIntLiteral(ends[1]) /\ IsPyIntLiteral(ends[2])
         THEN [ok |-> TRUE, pages |-> IntOf(ends[1])..IntOf(ends[2])]
         ELSE [ok |-> FALSE, pages |-> {}]
    ELSE IF IsPyIntLiteral(part) THEN [ok |-> TRUE, pages |-> {IntOf(part)}]
    ELSE [ok |-> FALSE, pages |-> {}]

\* sorted(list(set(pages)))
RECURSIVE SortedList(_)
SortedList(set) ==
    IF set = {} THEN <<>>
    ELSE LET least == CHOOSE x \in set : \A y \in set : x <= y
         IN <<least>> \o SortedList(set \ {least})

PagesList(pages) == [kind |-> "pages", pages |-> pages]
\* all of them are ValueErrors, which process_document answers with status
\* 400 (doc_processor.py lines 596-599)
PagesRaised == [kind |-> "raise", status |-> 400]
NoPagesStr == PyNone

\* lines 77-95: the list of pages, or the exception of custom_b64decode,
\* of int() or of the unpacking
parse_pages_param(pages_str) ==
    IF pages_str = NoPagesStr \/ Len(pages_str) = 0 THEN PagesList(<<>>)
    ELSE LET decoded == custom_b64decode(pages_str) IN
         IF ~decoded.ok THEN PagesRaised
         ELSE LET parts == Split(decoded.text, ",") IN
              IF \E i \in 1..Len(parts) : ~PartPages(parts[i]).ok THEN PagesRaised
              ELSE PagesList(SortedList(UNION {PartPages(parts[i]).pages : i \in 1..Len(parts)}))

-----------------------------------------------------------------------------
(* process_document up to the page selection (doc_processor.py lines        *)
(* 475-512) for requests composed from a page range, the way it is written *)
(* into the operations string and the parameters around it                  *)

SourceFormats == {
    <<"d", "o", "c">>, <<"d", "o", "c", "x">>, <<"w", "p", "s">>,
    <<"w", "p", "s", "s">>, <<"d", "o", "c", "m">>, <<"d", "o", "t", "m">>,
    <<"d", "o", "t">>, <<"d", "o", "t", "x">>, <<"h", "t", "m", "l">>,
    <<"p", "p", "t", "x">>, <<"p", "p", "t">>, <<"p", "o", "t">>,
    <<"p", "o", "t", "x">>, <<"p", "p", "s">>, <<"p", "p", "s", "x">>,
    <<"d", "p", "s">>, <<"d", "p", "t">>, <<"p", "p", "t", "m">>,
    <<"p", "o", "t", "m">>, <<"p", "p", "s", "m">>, <<"d", "p", "s", "s">>,
    <<"x", "l", "s">>, <<"x", "l", "t">>, <<"e", "t">>,
    <<"e", "t", "t">>, <<"x", "l", "s", "x">>, <<"x", "l", "t", "x">>,
    <<"c", "s", "v">>, <<"x", "l", "s", "b">>, <<"x", "l", "s", "m">>,
    <<"x", "l", "t", "m">>, <<"e", "t", "s">>, <<"p", "d", "f">>,
    <<"t", "x", "t">> }
TargetFormats == {
    <<"p", "d", "f">>, <<"p", "n", "g">>,
    <<"j", "p", "g">>, <<"t", "x", "t">> }
\* get_file_extension(object_key) of the request: the object is a .docx
KeyExtension == <<"d", "o", "c", "x">>

PageRanges == {
    <<"1", ",", "2", ",", "4", "-", "1", "0">>, <<"5">>,
    <<"1", "4", "0">>, <<"4", "4", "6", "2">>,
    <<"1", "-", "3">>, <<"3", "-", "1">>,
    <<"2", ",", "2", ",", "1">>, <<"1", "2">>,
    <<"3", ",", "1", "-", "2">>, <<"7", "-", "9", ",", "8">> }
Wrappings == {"direct", "base64", "base64 twice", "absent"}
DocOperations == {OP_convert, OP_resize}
SourceParts == {<<>>, <<<<"s", "o", "u", "r", "c", "e", "_", "d", "o", "c", "x">>>>, <<<<"s", "o", "u", "r", "c", "e", "_", "e", "x", "e">>>>}
TargetParts == {<<>>, <<<<"t", "a", "r", "g", "e", "t", "_", "p", "n", "g">>>>, <<<<"t", "a", "r", "g", "e", "t", "_", "g", "i", "f">>>>}
BucketParts == {<<>>, <<<<"b", "_", "b", "X", "k">>>>}

Wrapped(range, wrapping) ==
    IF wrapping = "direct" THEN range
    ELSE IF wrapping = "base64" THEN custom_b64encode(range)
    ELSE custom_b64encode(custom_b64encode(range))
PagesPart(range, wrapping) ==
    IF wrapping = "absent" THEN <<>> ELSE <<PFX_pages \o Wrapped(range, wrapping)>>

\* the one request without a comma, and the requests
\* operation,source_..,target_..,pages_..,b_..
DocRequests ==
    {OP_convert} \cup
    {Join(<<operation>> \o source \o target \o PagesPart(range, wrapping) \o bucket, ",") :
        <<operation, source, target, range, wrapping, bucket>> \in
            {OP_convert} \X {<<>>} \X {<<<<"t", "a", "r", "g", "e", "t", "_", "p", "n", "g">>>>} \X PageRanges \X Wrappings \X BucketParts}
    \cup
    {Join(<<operation>> \o source \o target \o PagesPart(range, wrapping) \o bucket, ",") :
        <<operation, source, target, range, wrapping, bucket>> \in
            DocOperations \X SourceParts \X TargetParts \X {<<"1", ",", "2", ",", "4", "-", "1", "0">>} \X {"base64"} \X BucketParts}

InitPages ==
    /\ doc_operation \in DocRequests
    /\ doc_params = NotRun
    /\ doc_pages = NotRun
    /\ IdleParse
    /\ IdleResize
    /\ IdleChain
    /\ IdlePlace
    /\ IdleConvert
    /\ IdleMore

\* lines 479-509: what process_document asks of the parsed request before
\* the pages are looked at
SourceFormatOf(params) ==
    IF Has(params, K_source) /\ Len(params[K_source]) > 0 THEN params[K_source]
    ELSE KeyExtension
RequestFault(p) ==
    IF p.operation # OP_convert THEN "Unknown operation"
    ELSE IF ~Has(p.params, K_target) THEN "Target format not specified"
    ELSE IF SourceFormatOf(p.params) \notin SourceFormats THEN "Unsupported source format"
    ELSE IF p.params[K_target] \notin TargetFormats THEN "Unsupported target format"
    ELSE "none"
\* the ProcessingError raised there is caught at line 600 and raised again
\* with status 500
Rejected(detail) == [kind |-> "rejected", status |-> 500, detail |-> detail]
PagesOf(params) == parse_pages_param(Get(params, K_pages, NoPagesStr))

\* line 475: parse_operation returns
DocParse ==
    /\ doc_params = NotRun
    /\ Contains(doc_operation, ",")
    /\ doc_params' = doc_parse_operation(doc_operation)
    /\ UNCHANGED <<doc_operation, doc_pages, varsParse, varsResize, varsChain, varsPlace, varsConvert, varsMore>>

\* line 475: parse_operation raises
DocParseRaises ==
    /\ doc_params = NotRun
    /\ ~Contains(doc_operation, ",")
    /\ doc_params' = doc_parse_operation(doc_operation)
    /\ UNCHANGED <<doc_operation, doc_pages, varsParse, varsResize, varsChain, varsPlace, varsConvert, varsMore>>

\* lines 476-509: the request is refused before the pages are parsed
DocRejected ==
    /\ doc_params # NotRun /\ doc_params.kind = "ok"
    /\ doc_pages = NotRun
    /\ RequestFault(doc_params) # "none"
    /\ doc_pages' = Rejected(RequestFault(doc_params))
    /\ UNCHANGED <<doc_operation, doc_params, varsParse, varsResize, varsChain, varsPlace, varsConvert, varsMore>>

\* line 512: pages = parse_pages_param(params.get('pages'))
DocPages ==
    /\ doc_params # NotRun /\ doc_params.kind = "ok"
    /\ doc_pages = NotRun
    /\ RequestFault(doc_params) = "none"
    /\ doc_pages' = PagesOf(doc_params.params)
    /\ UNCHANGED <<doc_operation, doc_params, varsParse, varsResize, varsChain, varsPlace, varsConvert, varsMore>>

NextPages == DocParse \/ DocParseRaises \/ DocRejected \/ DocPages
SpecPages == InitPages /\ [][NextPages]_vars

-----------------------------------------------------------------------------
(* C20 *)

\* the pages a range written as items N and N-M joined by commas denotes
ItemPages(item) ==
    IF Contains(item, "-")
    THEN IntOf(Split(item, "-")[1])..IntOf(Split(item, "-")[2])
    ELSE {IntOf(item)}
DenotedPages(range) ==
    LET itemsOf == Split(range, ",") IN
    SortedList(UNION {ItemPages(itemsOf[i]) : i \in 1..Len(itemsOf)})

\* the request convert,target_png,pages_<range>[,b_<bucket>]
PagesRequest(range, wrapping, bucket) ==
    Join(<<OP_convert, PFX_target \o <<"p", "n", "g">>>> \o PagesPart(range, wrapping) \o bucket, ",")

\* C20: for every page range made of items N and N-M joined by commas that
\* is written into the operations string directly or base64-wrapped, the
\* page selection of the document pipeline ends with the sorted list without
\* duplicates of the pages the range denotes.
C20_PagesExpanded ==
    \A range \in PageRanges, wrapping \in {"direct", "base64"}, bucket \in BucketParts :
        (doc_operation = PagesRequest(range, wrapping, bucket) /\ doc_pages # NotRun)
            => doc_pages = PagesList(DenotedPages(range))

\* the example of C20, written directly: parse_operation keeps '1,2,4-10'
\* as it is and parse_pages_param fails to base64-decode it
C20_DirectRangeRaises ==
    /\ doc_operation = PagesRequest(<<"1", ",", "2", ",", "4", "-", "1", "0">>, "direct", <<>>)
    /\ doc_params.kind = "ok"
    /\ doc_params.params[K_pages] = <<"1", ",", "2", ",", "4", "-", "1", "0">>
    /\ doc_pages = PagesRaised

\* the example of C20, base64-wrapped as the last parameter: parse_operation
\* decodes it and parse_pages_param fails to decode the decoded text again
C20_WrappedRangeDecodedTwice ==
    /\ doc_operation = PagesRequest(<<"1", ",", "2", ",", "4", "-", "1", "0">>, "base64", <<>>)
    /\ doc_params.kind = "ok"
    /\ doc_params.params[K_pages] = <<"1", ",", "2", ",", "4", "-", "1", "0">>
    /\ doc_pages = PagesRaised

\* what parse_pages_param is given base64-wrapped, it expands to the pages
\* denoted: a wrapped range followed by another parameter, and a range
\* wrapped twice as the last parameter
C20_WrappedOnceAtTheParser ==
    \A range \in PageRanges :
        (/\ doc_params # NotRun /\ doc_params.kind = "ok"
         /\ Has(doc_params.params, K_pages)
         /\ doc_params.params[K_pages] = custom_b64encode(range)
         /\ doc_pages # NotRun /\ doc_pages.kind # "rejected")
            => doc_pages = PagesList(DenotedPages(range))
C20_WrappedOnceExpanded ==
    /\ doc_operation = PagesRequest(<<"1", ",", "2", ",", "4", "-", "1", "0">>, "base64", <<<<"b", "_", "b", "X", "k">>>>)
    /\ doc_pages = PagesList(<<1, 2, 4, 5, 6, 7, 8, 9, 10>>)

-----------------------------------------------------------------------------
(* C21, C23, C25: process_image and process_audio behind their handlers,   *)
(* under Spec                                                               *)

\* the turn failed on what the request said: the segment did not parse, or
\* the step raised ProcessingError 400 (unknown operation, invalid parameter)
CallerFault(turn) == turn.raised /\ (turn.status = 400 \/ turn.parsed.kind # "ok")

\* C21: a request that fails on a malformed operation, an unknown operation
\* or an invalid parameter is answered by the image and the audio handler
\* with a statusCode in 400..499, never with a 5xx one.
C21_CallerFaultsAnswered4xx ==
    (reply # NotRun /\ Len(log) > 0 /\ CallerFault(log[Len(log)]))
        => reply.statusCode \in 400..499

\* an unknown operation of either pipeline is answered with 500
C21_UnknownOperationAnswered500 ==
    /\ reply # NotRun /\ reply.statusCode = 500
    /\ Len(log) = 1 /\ log[1].raised /\ log[1].status = 400
    /\ log[1].detail = "Unknown operation"

\* C23: within one process_image call the Status of the task record only
\* moves forward: no step sets it to failed after it was set to completed.
C23_StatusOnlyForward ==
    [][(pipeline = "image" /\ task_status = "completed") => task_status' # "failed"]_vars

\* a watermark step completed the task and a later operation failed it
C23_CompletedThenFailed ==
    /\ pipeline = "image" /\ pc = "done" /\ task_status = "failed"
    /\ Len(log) >= 2 /\ "complete" \in log[1].effects /\ ~log[1].raised
    /\ log[Len(log)].raised

\* C25: every failure inside process_image, a failed download included,
\* leaves it as a ProcessingError.
C25_FailuresAreProcessingErrors ==
    (pipeline = "image" /\ result # NotRun /\ result.kind = "error")
        => result.exc = "ProcessingError"

\* the download failed, and the except block raised on the unbound task_type
C25_DownloadFailureUnbound ==
    /\ pipeline = "image" /\ pc = "done" /\ ~Downloaded /\ log = <<>>
    /\ result.kind = "error" /\ result.exc = "UnboundLocalError"

-----------------------------------------------------------------------------
(* task-processor: the dead-letter processor (dlq_processor.py) and the     *)
(* task status handler (handler.py) over the task table. Texts are atoms;   *)
(* Missing stands for a key that is not there, NoneValue for Python's None.  *)

Missing == "(absent)"
NoneValue == "(None)"
NoStringValue == "(no stringValue)"
AwsRequestId == "req"

MessageBody(json, TaskId, path, proxy, ops) ==
    [json |-> json, TaskId |-> TaskId, path |-> path, proxy |-> proxy, operations |-> ops]
\* a body that is not JSON, one that is JSON but no object (a number), and objects
DlqBodies == {
    MessageBody("invalid", Missing, Missing, Missing, Missing),
    MessageBody("number", Missing, Missing, Missing, Missing),
    MessageBody("object", "t1", "/async-image/a.jpg", "a.jpg", "opA"),
    MessageBody("object", "t2", Missing, Missing, Missing),
    MessageBody("object", Missing, "/async-doc/b.docx", "b.docx", "opB") }
DlqAttributes == {
    [ErrorMessage |-> Missing, RequestID |-> Missing],
    [ErrorMessage |-> "Task timed out after 3.00 seconds", RequestID |-> "r1"],
    [ErrorMessage |-> "failed on opA", RequestID |-> Missing],
    [ErrorMessage |-> NoStringValue, RequestID |-> Missing] }
DlqRecords == {[body |-> b, messageAttributes |-> a] : b \in DlqBodies, a \in DlqAttributes}
MaxBatch == 2
DlqBatches == UNION {[1..n -> DlqRecords] : n \in 1..MaxBatch}

\* 'operations in error_message' for the texts above
Mentions(text, ops) == <<text, ops>> \in {<<"failed on opA", "opA">>}

\* lines 87-96
PathTaskType(path) ==
    IF path = "/async-doc/b.docx" THEN "doc/convert"
    ELSE IF path = "/async-image/a.jpg" THEN "image/process"
    ELSE "unknown"

\* an item of the task table; TargetKey is Missing in the items the error
\* paths write
TaskItem(status, type, source, target, message) ==
    [Status |-> status, TaskType |-> type, SourceKey |-> source, TargetKey |-> target,
     ErrorMessage |-> message]
ErrorText(text, ops) == [text |-> text, operations |-> ops]

\* dlq_processor.py lines 153-202: update the item when it exists, put a new
\* one otherwise
record_error_in_ddb(table, task_id, ttype, source_key, error_message) ==
    IF Has(table, task_id)
    THEN Put(table, task_id, [table[task_id] EXCEPT !.Status = "failed",
                                                     !.ErrorMessage = error_message])
    ELSE Put(table, task_id, TaskItem("failed", ttype, source_key, Missing, error_message))

\* lines 204-253: what is published
Notification(task_id, ttype, source_key, error_message, ops) ==
    [task_id |-> task_id, ttype |-> ttype, source_key |-> source_key,
     error_message |-> error_message, operations |-> ops]

\* lines 42-151: one turn of the loop over event['Records'], given the value
\* the local variable operations has when the turn begins
DlqTurn(record, operations_before) ==
    LET attrs == record.messageAttributes
        body == record.body
        hasText == attrs.ErrorMessage \notin {Missing, NoStringValue}
        \* lines 53-74
        message1 == IF hasText THEN attrs.ErrorMessage ELSE "Unknown error"
        id1 == attrs.RequestID
        \* lines 77-114
        isObject == body.json = "object"
        id2 == IF isObject /\ body.TaskId # Missing THEN body.TaskId ELSE id1
        ttype == IF isObject /\ body.path # Missing THEN PathTaskType(body.path) ELSE "unknown"
        source_key == IF isObject /\ body.proxy # Missing THEN body.proxy ELSE "unknown"
        ops == IF isObject
               THEN (IF body.operations # Missing THEN body.operations ELSE NoneValue)
               ELSE operations_before
        \* lines 117-136
        task_id == IF id2 = Missing THEN "error-req" ELSE id2
        message2 == IF message1 = "Unknown error" /\ attrs.ErrorMessage # Missing
                    THEN "" ELSE message1
        \* lines 139-140
        message3 == IF ops # NoneValue /\ ~Mentions(message2, ops)
                    THEN ErrorText(message2, ops) ELSE ErrorText(message2, NoneValue)
    IN IF body.json = "number"
       THEN [recorded |-> FALSE, exc |-> "TypeError", operations |-> operations_before]
       ELSE IF ops = Unbound
       THEN [recorded |-> FALSE, exc |-> "UnboundLocalError", operations |-> ops]
       ELSE [recorded |-> TRUE, exc |-> "", operations |-> ops, task_id |-> task_id,
             ttype |-> ttype, source_key |-> source_key, error_message |-> message3]

ExistingItem == TaskItem("processing", "image/watermark", "a.jpg", "watermark/a.jpg", Missing)
\* an item as ErrorHandler._record_in_dynamodb puts it (error_handler.py lines 115-133)
FailedItem == TaskItem("failed", "image/process", "a.jpg", Missing, ErrorText("boom", NoneValue))
InitialTables == {EmptyDict, "t1" :> ExistingItem, "t3" :> FailedItem}
StatusIds == {"t1", "t2", "t3", "error-req", "r1"}

InitTasks ==
    /\ dlq_records \in DlqBatches
    /\ dlq_operations = Unbound
    /\ dlq_table \in InitialTables
    /\ dlq_sent = <<>>
    /\ dlq_done = <<>>
    /\ status_reply = NotRun
    /\ IdleOld
    /\ IdleLate

\* one record of the batch is handled and, unless its turn raised, recorded
\* and notified
DlqRecorded ==
    /\ Len(dlq_done) < Len(dlq_records)
    /\ \E t \in {DlqTurn(dlq_records[Len(dlq_done) + 1], dlq_operations)} :
        /\ t.recorded
        /\ dlq_operations' = t.operations
        /\ dlq_table' = record_error_in_ddb(dlq_table, t.task_id, t.ttype,
                                            t.source_key, t.error_message)
        /\ dlq_sent' = Append(dlq_sent, Notification(t.task_id, t.ttype, t.source_key,
                                                     t.error_message, t.operations))
        /\ dlq_done' = Append(dlq_done, t)
    /\ UNCHANGED <<dlq_records, status_reply, varsOld, varsLate>>

\* lines 148-151: the turn raised; the record is logged and skipped
DlqSkipped ==
    /\ Len(dlq_done) < Len(dlq_records)
    /\ \E t \in {DlqTurn(dlq_records[Len(dlq_done) + 1], dlq_operations)} :
        /\ ~t.recorded
        /\ dlq_operations' = t.operations
        /\ dlq_done' = Append(dlq_done, t)
    /\ UNCHANGED <<dlq_records, dlq_table, dlq_sent, status_reply, varsOld, varsLate>>

\* ddb_operations.py lines 121-151: the item, or ProcessingError 404
get_task_status(table, task_id, ttype) ==
    IF Has(table, task_id) THEN [kind |-> "item", item |-> table[task_id]]
    ELSE [kind |-> "raise", exc |-> "ProcessingError", status |-> 404]

\* handler.py line 54 calls get_task_status(task_id), without the task_type
\* the function requires: the call raises TypeError before the table is read
CallWithoutTaskType(table, task_id) == [kind |-> "raise", exc |-> "TypeError", status |-> 0]

\* the copy under .aws-sam/build/TaskProcessorFunction passes a task_type
HandlerCopies == {"src", "build"}
StatusReply(copy, task_id, code, status, message) ==
    [kind |-> "reply", copy |-> copy, task_id |-> task_id, statusCode |-> code,
     Status |-> status, ErrorMessage |-> message]

\* handler.py lines 53-107 for a task_id other than '' and 'list': the
\* statusCode and what the body reports. An item without TargetKey makes
\* line 58 raise KeyError, which line 101 answers with 500.
StatusAnswer(copy, table, task_id) ==
    LET got == IF copy = "src" THEN CallWithoutTaskType(table, task_id)
               ELSE get_task_status(table, task_id, "document") IN
    IF got.kind = "raise"
    THEN StatusReply(copy, task_id, IF got.exc = "ProcessingError" THEN got.status ELSE 500,
                     Missing, Missing)
    ELSE IF got.item.TargetKey = Missing
    THEN StatusReply(copy, task_id, 500, Missing, Missing)
    ELSE StatusReply(copy, task_id, 200, got.item.Status, got.item.ErrorMessage)

StatusRequest ==
    /\ status_reply = NotRun
    /\ \E task_id \in StatusIds, copy \in HandlerCopies :
          status_reply' = StatusAnswer(copy, dlq_table, task_id)
    /\ UNCHANGED <<dlq_records, dlq_operations, dlq_table, dlq_sent, dlq_done, varsOld, varsLate>>

NextTasks == DlqRecorded \/ DlqSkipped \/ StatusRequest
SpecTasks == InitTasks /\ [][NextTasks]_vars

-----------------------------------------------------------------------------
(* C26, C28: the task-processor claims, under SpecTasks *)

\* the operations string a record itself carries (lines 106-111)
OwnOperations(record) ==
    IF record.body.json = "object" /\ record.body.operations # Missing
    THEN record.body.operations ELSE NoneValue

\* C26: each record of a dead-letter batch, one with an invalid JSON body
\* included, is recorded and notified, and the operations recorded for it are
\* its own: nothing is carried over from an earlier record.
C26_EachRecordFromItsOwnFields ==
    /\ Len(dlq_sent) = Len(dlq_done)
    /\ \A k \in 1..Len(dlq_done) :
          /\ dlq_done[k].recorded
          /\ dlq_done[k].operations = OwnOperations(dlq_records[k])

\* the first record's body is not JSON: operations is unbound at line 139 and
\* the record is neither recorded nor notified
C26_InvalidFirstRecordSkipped ==
    /\ Len(dlq_done) >= 1 /\ dlq_records[1].body.json = "invalid"
    /\ ~dlq_done[1].recorded /\ dlq_done[1].exc = "UnboundLocalError"
    /\ dlq_sent = <<>>

\* the second record's body is not JSON: it is recorded with the operations
\* of the first record
C26_OperationsCarriedOver ==
    /\ Len(dlq_done) = 2 /\ dlq_records[2].body.json = "invalid"
    /\ dlq_records[1].body.operations = "opA"
    /\ dlq_done[2].recorded /\ dlq_done[2].error_message.operations = "opA"
    /\ dlq_sent[2].operations = "opA"

\* C28: a status request for a task id that has a record in the task table,
\* a failed record without TargetKey included, is answered with 200, the
\* record's Status and its ErrorMessage.
C28_StatusOfEveryRecord ==
    [][(status_reply = NotRun /\ status_reply' # NotRun
            /\ Has(dlq_table, status_reply'.task_id))
        => /\ status_reply'.statusCode = 200
           /\ status_reply'.Status = dlq_table[status_reply'.task_id].Status
           /\ status_reply'.ErrorMessage = dlq_table[status_reply'.task_id].ErrorMessage]_vars

\* the failed record the error handler wrote is asked for through the build
\* copy of the handler, and the answer is 500
C28_FailedRecordAnswered500 ==
    /\ status_reply # NotRun /\ status_reply.copy = "build"
    /\ status_reply.task_id = "t3" /\ Has(dlq_table, "t3")
    /\ dlq_table["t3"].TargetKey = Missing
    /\ status_reply.statusCode = 500

\* a record with a TargetKey is asked for through handler.py as it stands
\* in src, and the answer is 500
C28_SrcHandlerAnswers500 ==
    /\ status_reply # NotRun /\ status_reply.copy = "src"
    /\ status_reply.task_id = "t1" /\ dlq_done = <<>> /\ Has(dlq_table, "t1")
    /\ status_reply.statusCode = 500

\* the build copy answers 200 for a record that has a TargetKey
C28_BuildCopyAnswers200 ==
    /\ status_reply # NotRun /\ status_reply.copy = "build"
    /\ status_reply.statusCode = 200 /\ status_reply.Status = "failed"

-----------------------------------------------------------------------------
(* C27: the place of pages_ in the document operation string, under SpecPages *)

\* lines 475 and 511-512 for a request that is not refused
PagesOfRequest(request) == PagesOf(doc_parse_operation(request).params)

\* C27: the page list obtained for a pages_ value is the same whether pages_
\* is the last parameter of the operation string or is followed by a b_
\* parameter.
C27_PagesWhereverTheyStand ==
    \A range \in PageRanges, wrapping \in {"direct", "base64", "base64 twice"} :
        (doc_operation = PagesRequest(range, wrapping, <<<<"b", "_", "b", "X", "k">>>>)
            /\ doc_pages # NotRun)
            => doc_pages = PagesOfRequest(PagesRequest(range, wrapping, <<>>))

\* pages_MSwyLDQtMTA followed by b_bXk gives the pages 1,2,4..10, while the
\* same value as the last parameter makes parse_pages_param raise
C27_FollowedGivesPagesLastRaises ==
    /\ doc_operation = PagesRequest(<<"1", ",", "2", ",", "4", "-", "1", "0">>, "base64", <<<<"b", "_", "b", "X", "k">>>>)
    /\ doc_pages = PagesList(<<1, 2, 4, 5, 6, 7, 8, 9, 10>>)
    /\ PagesOfRequest(PagesRequest(<<"1", ",", "2", ",", "4", "-", "1", "0">>, "base64", <<>>)) = PagesRaised

-----------------------------------------------------------------------------
(* C29: no zero-sized target, under SpecResize *)

\* every p, w, h, l, s of the call is an integer that passes validation
ValidResizeParams ==
    /\ Has(resize_params, K_p) =>
          /\ IsInt(resize_params[K_p])
          /\ MinPercent <= resize_params[K_p][2] /\ resize_params[K_p][2] <= MaxPercent
    /\ \A k \in {K_w, K_h, K_l, K_s} :
          Has(resize_params, k) => IsInt(resize_params[k]) /\ InRange(resize_params[k][2])
\* the call went as far as computing a target size
TargetComputed ==
    /\ resized # NotRun
    /\ \/ resized.kind \in {"ok", "skip"}
       \/ resized.detail = <<"", "height and width must be > 0">>

\* C29: for every source image of at least 1x1 pixels and every resize
\* parameter set that passes validation, the target width and the target
\* height computed by resize_image are both at least 1.
C29_TargetAtLeastOne ==
    (ValidResizeParams /\ TargetComputed) =>
        resized.target[1] >= 1 /\ resized.target[2] >= 1

\* a 1x1 source at 50 per cent: int(1 * 50 / 100) = 0 on both axes
C29_PercentGivesZero ==
    /\ src_size = <<1, 1>> /\ ValidResizeParams /\ TargetComputed
    /\ Has(resize_params, K_p) /\ resize_params[K_p] = PyInt(50)
    /\ resized.kind = "error" /\ resized.target = <<0, 0>>

\* a 2x1 source resized to width 1: the height is int(1 * (1 / 2)) = 0
C29_WidthGivesZeroHeight ==
    /\ src_size = <<2, 1>> /\ ValidResizeParams /\ TargetComputed
    /\ DOMAIN resize_params = {K_w} /\ resize_params[K_w] = PyInt(1)
    /\ resized.kind = "error" /\ resized.target = <<1, 0>>

-----------------------------------------------------------------------------
(* video-processor: the segment cache of VideoSnapshots ('video_snapshots   *)
(* copy.py') and its clean-up at the end of process_video ('video_processor *)
(* copy.py'). A cache key is the text md5(video_path)_start_end; the keys   *)
(* are numbered in the order in which sorted() puts those texts. The dict   *)
(* is the sequence of its keys in insertion order.                          *)

MaxSegmentKey == 7
MaxInserted == 7
SegmentKeys == 1..MaxSegmentKey
CacheLimit == 5

Cached(cache) == {cache[i] : i \in 1..Len(cache)}
\* sorted(cache.keys())[:-5]: all keys but the five greatest
RECURSIVE Smallest(_, _)
Smallest(keys, n) ==
    IF n <= 0 \/ keys = {} THEN {}
    ELSE LET least == CHOOSE k \in keys : \A other \in keys : k <= other IN
         {least} \cup Smallest(keys \ {least}, n - 1)
oldest_keys(cache) == Smallest(Cached(cache), Len(cache) - CacheLimit)

\* 'video_processor copy.py' lines 211-222: del cache[key] for those keys
CleanUp(cache) ==
    IF Len(cache) > CacheLimit
    THEN SelectSeq(cache, LAMBDA k : k \notin oldest_keys(cache))
    ELSE cache

\* 'video_snapshots copy.py' lines 199-201
cache_segment(cache, cache_key) ==
    IF cache_key \in Cached(cache) THEN cache ELSE Append(cache, cache_key)

VideoReturned(how, key) == [kind |-> how, key |-> key]

InitVideo ==
    /\ segment_cache = <<>>
    /\ segment_inserted = <<>>
    /\ video_return = NotRun
    /\ IdleOld
    /\ IdleDlq
    /\ IdleConv
    /\ IdleShare

\* process_video raises without a segment having been cached: the request
\* is refused, ffprobe or the download of the segment fails, or ffmpeg fails
\* on the direct path or on a cached segment
VideoRaises ==
    /\ video_return' = VideoReturned("raise", 0)
    /\ video_return # video_return'
    /\ UNCHANGED <<segment_cache, segment_inserted, varsNotVideo>>

\* the frame is taken from the video itself or from a segment found in the
\* cache (get_cached_segment, lines 188-196); the clean-up runs
VideoReturnsCached ==
    /\ \E key \in Cached(segment_cache) \cup {0} :
          video_return' = VideoReturned("ok", key)
    /\ segment_cache' = CleanUp(segment_cache)
    /\ <<video_return, segment_cache>> # <<video_return', segment_cache'>>
    /\ UNCHANGED <<segment_inserted, varsNotVideo>>

\* extract_frame lines 533-547: the segment is not cached, it is downloaded
\* and cached; the frame is extracted and the clean-up runs
VideoCachesSegment ==
    /\ Len(segment_inserted) < MaxInserted
    /\ \E key \in SegmentKeys \ Cached(segment_cache) :
          /\ segment_inserted' = Append(segment_inserted, key)
          /\ segment_cache' = CleanUp(cache_segment(segment_cache, key))
          /\ video_return' = VideoReturned("ok", key)
    /\ UNCHANGED <<varsNotVideo>>

\* the segment is downloaded and cached, then ffmpeg fails on it:
\* process_video raises and the clean-up does not run
VideoCachesThenRaises ==
    /\ Len(segment_inserted) < MaxInserted
    /\ \E key \in SegmentKeys \ Cached(segment_cache) :
          /\ segment_inserted' = Append(segment_inserted, key)
          /\ segment_cache' = cache_segment(segment_cache, key)
          /\ video_return' = VideoReturned("raise", key)
    /\ UNCHANGED <<varsNotVideo>>

NextVideo == VideoRaises \/ VideoReturnsCached \/ VideoCachesSegment \/ VideoCachesThenRaises
SpecVideo == InitVideo /\ [][NextVideo]_vars

-----------------------------------------------------------------------------
(* C30, under SpecVideo *)

\* the keys of the last n insertions
LastInserted(n) ==
    {segment_inserted[i] : i \in (Len(segment_inserted) - n + 1)..Len(segment_inserted)}

\* C30: when a process_video call returns successfully the segment cache
\* holds at most 5 entries, and they are the most recently inserted ones.
C30_FiveMostRecent ==
    video_return.kind = "ok" =>
        /\ Len(segment_cache) <= CacheLimit
        /\ Cached(segment_cache) = LastInserted(Len(segment_cache))

\* the size part of C30 on its own
C30_AtMostFive ==
    video_return.kind = "ok" => Len(segment_cache) <= CacheLimit

\* six segments were cached, the last one under the least key: the clean-up
\* removed the segment the call had just cached and kept the oldest
C30_NewestEvicted ==
    /\ video_return = VideoReturned("ok", 1)
    /\ segment_inserted = <<2, 3, 4, 5, 6, 1>>
    /\ segment_cache = <<2, 3, 4, 5, 6>>

\* two calls failed after caching, so a successful call cleans up two entries
C30_TwoEvictedAtOnce ==
    /\ video_return.kind = "ok"
    /\ Len(segment_inserted) = 7 /\ Len(segment_cache) = CacheLimit
    /\ \E i \in 1..2 : segment_inserted[i] \in Cached(segment_cache)

-----------------------------------------------------------------------------
(* document-processor: the task record of one process_document call         *)
(* (doc_processor.py lines 446-603 and 327-444) with update_task_status of  *)
(* document-processor/ddb_operations.py. The request is one that passes the *)
(* checks of lines 467-509.                                                 *)

TaskStatus == {"processing", "completed", "failed"}
DocTaskType == "doc/convert"
MaxPngFiles == 3
ConvTargets == {"png", "pdf", "jpg", "txt"}
\* what a step of the conversion can raise
ConvFaults == {"IOError", "RuntimeError"}

\* ddb_operations.py lines 71-110: update_task_status(task_id, status,
\* error_message=None), called with the arguments args after task_id. More
\* than two of them do not bind; a status that is no TaskStatus has no
\* .value (line 88).
update_task_status(record, args) ==
    IF Len(args) > 2
    THEN [kind |-> "raise", exc |-> "TypeError", record |-> record]
    ELSE IF args[1] \notin TaskStatus
    THEN [kind |-> "raise", exc |-> "AttributeError", record |-> record]
    ELSE [kind |-> "ok", exc |-> "",
          record |-> IF Len(args) = 2 /\ args[2] # "" /\ args[1] = "failed"
                     THEN [Status |-> args[1], ErrorMessage |-> args[2]]
                     ELSE [record EXCEPT !.Status = args[1]]]

NoRecord == [Status |-> Missing, ErrorMessage |-> Missing]
\* ddb_operations.py lines 36-69: create_task_record
create_task_record == [Status |-> "processing", ErrorMessage |-> Missing]

ConvRaised(exc, status) == [kind |-> "raise", exc |-> exc, status |-> status]
\* doc_processor.py lines 592-603: what process_document makes of an exception
Reraised(exc) ==
    IF exc = "IOError" THEN ConvRaised("ProcessingError", 500)
    ELSE IF exc = "ValueError" THEN ConvRaised("ProcessingError", 400)
    ELSE ConvRaised("ProcessingError", 500)

\* lines 430-444: the except clauses of process_document_sync for a fault
\* raised inside its try block; the exception that leaves the function
Excepted(record, fault) ==
    LET updated == update_task_status(record, <<DocTaskType, "failed", fault>>) IN
    IF updated.kind = "raise" THEN updated
    ELSE [kind |-> "raise", exc |-> IF fault = "IOError" THEN "ProcessingError" ELSE fault,
          record |-> updated.record]

InitConv ==
    /\ conv_target \in ConvTargets
    /\ conv_files \in 1..MaxPngFiles
    /\ conv_pc = "start"
    /\ conv_uploaded = 0
    /\ conv_record = NoRecord
    /\ conv_result = NotRun
    /\ IdleOld
    /\ IdleDlq
    /\ IdleVideo
    /\ IdleShare

\* lines 460-509: the request is refused before the record is created
ConvRefused ==
    /\ conv_pc = "start"
    /\ conv_pc' = "done"
    /\ \E status \in {400, 500} : conv_result' = ConvRaised("ProcessingError", status)
    /\ UNCHANGED <<conv_target, conv_files, conv_uploaded, conv_record, varsNotConv>>

\* lines 538-555: create_task_record
ConvCreate ==
    /\ conv_pc = "start"
    /\ conv_pc' = "created"
    /\ conv_record' = create_task_record
    /\ UNCHANGED <<conv_target, conv_files, conv_uploaded, conv_result, varsNotConv>>

\* lines 333-353: the download, before the try block of process_document_sync;
\* a ProcessingError 404 is answered by a second download without the prefix
ConvDownload ==
    /\ conv_pc \in {"created", "retrying"}
    /\ conv_pc' = "downloaded"
    /\ UNCHANGED <<conv_target, conv_files, conv_uploaded, conv_record, conv_result, varsNotConv>>
ConvDownloadRetry ==
    /\ conv_pc = "created"
    /\ conv_pc' = "retrying"
    /\ UNCHANGED <<conv_target, conv_files, conv_uploaded, conv_record, conv_result, varsNotConv>>
ConvDownloadFails ==
    /\ conv_pc \in {"created", "retrying"}
    /\ conv_pc' = "done"
    /\ \E exc \in {"HTTPException", "ProcessingError"} : conv_result' = Reraised(exc)
    /\ UNCHANGED <<conv_target, conv_files, conv_uploaded, conv_record, varsNotConv>>

\* a step inside the try block raises fault: lines 430-444, then 592-603
ConvFails(fault) ==
    /\ \E e \in {Excepted(conv_record, fault)} :
          /\ conv_record' = e.record
          /\ conv_result' = Reraised(e.exc)
    /\ conv_pc' = "done"
    /\ UNCHANGED <<conv_target, conv_files, conv_uploaded, varsNotConv>>

\* lines 376-382 and 410-416: convert_document
ConvConvert ==
    /\ conv_pc = "downloaded"
    /\ conv_pc' = "converted"
    /\ UNCHANGED <<conv_target, conv_files, conv_uploaded, conv_record, conv_result, varsNotConv>>
ConvConvertFails ==
    /\ conv_pc = "downloaded"
    /\ \E fault \in ConvFaults : ConvFails(fault)

\* lines 391-401 (one PNG file per turn) and 418-426 (the one output file)
FilesToUpload == IF conv_target = "png" THEN conv_files ELSE 1
ConvUpload ==
    /\ conv_pc = "converted"
    /\ conv_uploaded < FilesToUpload
    /\ conv_uploaded' = conv_uploaded + 1
    /\ UNCHANGED <<conv_target, conv_files, conv_pc, conv_record, conv_result, varsNotConv>>
ConvUploadFails ==
    /\ conv_pc = "converted"
    /\ conv_uploaded < FilesToUpload
    /\ \E fault \in {"HTTPException", "IOError"} : ConvFails(fault)

\* lines 427-429: update_task_status(task_id, task_type, TaskStatus.COMPLETED);
\* when it raises, the except clause of line 439 takes over; otherwise
\* lines 570-590 return the response
ConvComplete ==
    /\ conv_pc = "converted"
    /\ conv_uploaded = FilesToUpload
    /\ conv_pc' = "done"
    /\ \E updated \in {update_task_status(conv_record, <<DocTaskType, "completed">>)} :
          IF updated.kind = "ok"
          THEN /\ conv_record' = updated.record
               /\ conv_result' = [kind |-> "response", exc |-> "", status |-> 202]
          ELSE \E e \in {Excepted(conv_record, updated.exc)} :
                  /\ conv_record' = e.record
                  /\ conv_result' = Reraised(e.exc)
    /\ UNCHANGED <<conv_target, conv_files, conv_uploaded, varsNotConv>>

NextConv ==
    \/ ConvRefused \/ ConvCreate \/ ConvDownload \/ ConvDownloadRetry \/ ConvDownloadFails
    \/ ConvConvert \/ ConvConvertFails \/ ConvUpload \/ ConvUploadFails \/ ConvComplete
SpecConv == InitConv /\ [][NextConv]_vars

-----------------------------------------------------------------------------
(* C24, under SpecConv *)

\* conversion and every upload went through
ConvSucceeded ==
    /\ conv_pc = "done" /\ conv_record # NoRecord
    /\ conv_uploaded = FilesToUpload

\* C24: when process_document returns or raises, a task record it created
\* is not left in processing: it is completed when conversion and upload
\* succeeded, and failed otherwise.
C24_NoRecordLeftProcessing ==
    (conv_pc = "done" /\ conv_record # NoRecord) =>
        conv_record.Status = IF ConvSucceeded THEN "completed" ELSE "failed"

\* conversion and upload succeeded, the record is still processing and the
\* caller got ProcessingError 500
C24_SucceededLeftProcessing ==
    /\ ConvSucceeded /\ conv_record.Status = "processing"
    /\ conv_result = ConvRaised("ProcessingError", 500)

\* the download failed after the record was created
C24_DownloadFailedLeftProcessing ==
    /\ conv_pc = "done" /\ conv_uploaded = 0 /\ conv_record.Status = "processing"
    /\ conv_result = ConvRaised("ProcessingError", 500)

-----------------------------------------------------------------------------
(* Two invocations in one execution environment: convert_audio             *)
(* (audio_converter.py), add_blind_watermark (image_blindwatermark.py) and  *)
(* extract_blind_watermark (image_deblindwatermark.py) over the files they  *)
(* keep under /tmp. A file holds bytes: those of an input and the steps     *)
(* that were applied to them.                                               *)

Invocations == {1, 2}
InputBytes == <<"A", "B">>
Content(data, applied) == [data |-> data, applied |-> applied]
NoFile == [data |-> "", applied |-> <<>>]

StepOf(op, path, src) == [op |-> op, path |-> path, src |-> src]
\* audio_converter.py lines 117-186
convert_audio_steps(f) ==
    << StepOf("write", "/tmp/input.wav", ""),
       StepOf("ffmpeg", "/tmp/output." \o f, "/tmp/input.wav"),
       StepOf("read", "/tmp/output." \o f, ""),
       StepOf("remove", "/tmp/input.wav", ""),
       StepOf("remove", "/tmp/output." \o f, "") >>
\* image_blindwatermark.py lines 33-78
add_blind_watermark_steps ==
    << StepOf("write", "/tmp/input_image.jpg", ""),
       StepOf("save", "/tmp/normalized_image.jpg", "/tmp/input_image.jpg"),
       StepOf("embed", "/tmp/watermarked_image.jpg", "/tmp/normalized_image.jpg"),
       StepOf("read", "/tmp/watermarked_image.jpg", ""),
       StepOf("remove", "/tmp/input_image.jpg", ""),
       StepOf("remove", "/tmp/normalized_image.jpg", ""),
       StepOf("remove", "/tmp/watermarked_image.jpg", "") >>
\* image_deblindwatermark.py lines 25-114: the image is saved, normalized and
\* read by bwm.extract, and the two files are removed
extract_blind_watermark_steps ==
    << StepOf("write", "/tmp/input_image_extract.jpg", ""),
       StepOf("save", "/tmp/normalized_input_image_extract.jpg", "/tmp/input_image_extract.jpg"),
       StepOf("read", "/tmp/normalized_input_image_extract.jpg", ""),
       StepOf("remove", "/tmp/input_image_extract.jpg", ""),
       StepOf("remove", "/tmp/normalized_input_image_extract.jpg", "") >>

SharedCalls == {
    [fn |-> "convert_audio", f |-> "mp3"], [fn |-> "convert_audio", f |-> "flac"],
    [fn |-> "add_blind_watermark", f |-> ""], [fn |-> "extract_blind_watermark", f |-> ""] }
StepsOf(call) ==
    IF call.fn = "convert_audio" THEN convert_audio_steps(call.f)
    ELSE IF call.fn = "add_blind_watermark" THEN add_blind_watermark_steps
    ELSE extract_blind_watermark_steps
TmpPaths == UNION {{StepsOf(c)[k].path : k \in 1..Len(StepsOf(c))} : c \in SharedCalls}
\* the files the except clause removes when they exist
\* (image_blindwatermark.py lines 99-103, image_deblindwatermark.py lines
\* 118-123); convert_audio removes nothing
RemovedOnError(call) ==
    IF call.fn = "convert_audio" THEN {}
    ELSE {StepsOf(call)[k].path : k \in 1..Len(StepsOf(call))}

\* the step invocation i is about to take
NextStep(i) == StepsOf(share_call[i])[share_pc[i]]
Running(i) == share_result[i] = NotRun /\ share_pc[i] <= Len(StepsOf(share_call[i]))
ShareReturned(content) == [kind |-> "ok", content |-> content]
ShareRaised == [kind |-> "raise", content |-> NoFile]
\* the step done; after the last step the function returns what it read
Advance(i, got) ==
    /\ share_pc' = [share_pc EXCEPT ![i] = @ + 1]
    /\ share_got' = [share_got EXCEPT ![i] = got]
    /\ share_result' = [share_result EXCEPT ![i] =
          IF share_pc[i] = Len(StepsOf(share_call[i])) THEN ShareReturned(got) ELSE @]

InitShare ==
    /\ share_call \in [Invocations -> SharedCalls]
    /\ share_pc = [i \in Invocations |-> 1]
    /\ share_files = [p \in TmpPaths |-> NoFile]
    /\ share_got = [i \in Invocations |-> NoFile]
    /\ share_result = [i \in Invocations |-> NotRun]
    /\ IdleOld
    /\ IdleDlq
    /\ IdleVideo
    /\ IdleConv

\* with open(path, 'wb') as f: f.write(data)
ShareWrite(i) ==
    /\ Running(i) /\ NextStep(i).op = "write"
    /\ share_files' = [share_files EXCEPT ![NextStep(i).path] = Content(InputBytes[i], <<>>)]
    /\ Advance(i, share_got[i])
    /\ UNCHANGED <<share_call, varsNotShare>>

\* ffmpeg, img.save and bwm.embed read one file and write another
ShareTransform(i) ==
    /\ Running(i) /\ NextStep(i).op \in {"ffmpeg", "save", "embed"}
    /\ share_files[NextStep(i).src] # NoFile
    /\ share_files' = [share_files EXCEPT ![NextStep(i).path] =
          Content(share_files[NextStep(i).src].data,
                  Append(share_files[NextStep(i).src].applied, NextStep(i).op))]
    /\ Advance(i, share_got[i])
    /\ UNCHANGED <<share_call, varsNotShare>>

\* a step raises, and the except clause removes the files it names
Raise(i) ==
    /\ share_result' = [share_result EXCEPT ![i] = ShareRaised]
    /\ share_files' = [p \in TmpPaths |->
          IF p \in RemovedOnError(share_call[i]) THEN NoFile ELSE share_files[p]]
    /\ UNCHANGED <<share_call, share_pc, share_got, varsNotShare>>

\* ffmpeg is run without -y: when the output file is there it may refuse to
\* overwrite it and exit with an error (audio_converter.py lines 168-176)
ShareFfmpegRefuses(i) ==
    /\ Running(i) /\ NextStep(i).op = "ffmpeg"
    /\ share_files[NextStep(i).path] # NoFile
    /\ Raise(i)

\* with open(path, 'rb') as f: f.read(), and bwm.extract(path)
ShareRead(i) ==
    /\ Running(i) /\ NextStep(i).op = "read"
    /\ share_files[NextStep(i).path] # NoFile
    /\ Advance(i, share_files[NextStep(i).path])
    /\ UNCHANGED <<share_call, share_files, varsNotShare>>

\* os.remove(path)
ShareRemove(i) ==
    /\ Running(i) /\ NextStep(i).op = "remove"
    /\ share_files[NextStep(i).path] # NoFile
    /\ share_files' = [share_files EXCEPT ![NextStep(i).path] = NoFile]
    /\ Advance(i, share_got[i])
    /\ UNCHANGED <<share_call, varsNotShare>>

\* the file a step reads or removes is not there
ShareFileMissing(i) ==
    /\ Running(i) /\ NextStep(i).op # "write"
    /\ share_files[IF NextStep(i).src # "" THEN NextStep(i).src ELSE NextStep(i).path] = NoFile
    /\ Raise(i)

NextShare ==
    \E i \in Invocations :
        \/ ShareWrite(i) \/ ShareTransform(i) \/ ShareFfmpegRefuses(i)
        \/ ShareRead(i) \/ ShareRemove(i) \/ ShareFileMissing(i)
SpecShare == InitShare /\ [][NextShare]_vars

-----------------------------------------------------------------------------
(* C22, under SpecShare *)

\* what the call returns when it runs on its own
RECURSIVE AppliedBy(_, _)
AppliedBy(steps, k) ==
    IF k = 0 THEN <<>>
    ELSE IF steps[k].op \in {"ffmpeg", "save", "embed"}
    THEN Append(AppliedBy(steps, k - 1), steps[k].op)
    ELSE AppliedBy(steps, k - 1)
OwnResult(i) ==
    ShareReturned(Content(InputBytes[i],
                          AppliedBy(StepsOf(share_call[i]), Len(StepsOf(share_call[i])))))

\* C22: two invocations whose steps interleave in one execution environment
\* share no mutable state: each returns the result determined by its own
\* bytes and operations.
C22_EachReturnsItsOwn ==
    \A i \in Invocations : share_result[i] # NotRun => share_result[i] = OwnResult(i)

\* two convert_audio calls: the first returns the conversion of the bytes of
\* the second
C22_ReturnsTheOthersAudio ==
    /\ share_call[1].fn = "convert_audio" /\ share_call[2].fn = "convert_audio"
    /\ share_result[1] = ShareReturned(Content("B", <<"ffmpeg">>))

\* two add_blind_watermark calls: the second returns the watermarked image
\* of the first
C22_ReturnsTheOthersImage ==
    /\ share_call[1].fn = "add_blind_watermark" /\ share_call[2].fn = "add_blind_watermark"
    /\ share_result[2] = ShareReturned(Content("A", <<"save", "embed">>))

\* two extract_blind_watermark calls: one fails because the other removed
\* its file
C22_ExtractFailsOnRemovedFile ==
    /\ share_call[1].fn = "extract_blind_watermark"
    /\ share_call[2].fn = "extract_blind_watermark"
    /\ share_result[1] = ShareRaised /\ share_result[2].kind = "ok"

\* calls of different functions do not meet: both return their own result
C22_DifferentFunctionsApart ==
    (share_call[1].fn # share_call[2].fn) => C22_EachReturnsItsOwn

====
